---------------------------- MODULE Spec2Model ----------------------------
(***************************************************************************)
(* A model of LockFreeHashTable<int, int, Hash> (src/lockfree_hashtable.h, *)
(* the revision of lines 1-582, the one the include guard lets compile)    *)
(* and of the hazard-pointer Reclaimer (src/reclaimer.h).                  *)
(*                                                                         *)
(* Granularity: every access to shared memory (an atomic load, store,      *)
(* exchange or CAS, a dereference of a shared node) is one step of the      *)
(* thread that makes it; thread-private work is folded into the step that  *)
(* follows it.  A thread is a loop of public calls (Insert, Find, Delete)  *)
(* followed by its exit, which runs ~Reclaimer.                            *)
(***************************************************************************)
EXTENDS Integers, Sequences, FiniteSets, TLC

(* ------------------------------ bounds --------------------------------- *)
\* Number of worker threads.
NThreads == 2
\* Public calls one thread makes before it exits.
MaxOps == 2
\* Keys are 0..MaxKey, values 1..MaxVal.
MaxKey == 2
MaxVal == 2
\* Calls of the single thread of the sequential specifications.
MaxSeqOps == 4

(* ------------------------- program constants --------------------------- *)
kLoadFactorNum == 1
kLoadFactorDen == 2
kCoefficient == 4
kHarzardPointersPerThread == 3
kDebugSize == 5

Threads == 1..NThreads
Keys == 0..MaxKey
Vals == 1..MaxVal
Null == <<>>

(* ------------------------------ hashing -------------------------------- *)
\* test.cc's Hash: size_t operator()(int x) const { return x; }
hash_func_(key) == key

\* The permutation 0,2,1,3 the R2/R4/R6 macros apply to each pair of bits.
RPair(x) == CASE x = 0 -> 0 [] x = 1 -> 2 [] x = 2 -> 1 [] OTHER -> 3

\* reverse8bits_[i]: entry i = 64a+16b+4c+d of {R6(0), R6(2), R6(1), R6(3)}.
reverse8bits_(i) ==
  RPair(i \div 64) + 4 * RPair((i \div 16) % 4) + 16 * RPair((i \div 4) % 4)
    + 64 * RPair(i % 4)

\* Byte i (0 = least significant) of a 64-bit word.  Hashes of the model are
\* below 2^31, so bytes 4..7 of a plain hash are zero.
ByteOf(h, i) == IF i < 4 THEN (h \div (256 ^ i)) % 256 ELSE 0

\* Node::Reverse, on the eight bytes of the word, least significant first.
\* The result is the 64-bit word as its eight bytes, MOST significant first,
\* so that the order of words is the lexicographic order of the tuples.
ReverseBytes(bs) == [j \in 1..8 |-> reverse8bits_(bs[j])]

Reverse(h) == ReverseBytes([j \in 1..8 |-> ByteOf(h, j - 1)])

\* A regular key without the bit that tells it from a dummy key.
RegularKeyPlain(h) == Reverse(h)

\* hash | 0x8000000000000000, then Reverse.
RegularKey(h) ==
  ReverseBytes([j \in 1..8 |->
     IF j = 8 THEN (IF ByteOf(h, 7) >= 128 THEN ByteOf(h, 7) ELSE ByteOf(h, 7) + 128)
     ELSE ByteOf(h, j - 1)])

DummyKey(h) == Reverse(h)

\* Unsigned comparison of two 64-bit words given as bytes, most significant first.
WordLess(a, b) ==
  \E j \in 1..8 : a[j] < b[j] /\ \A i \in 1..(j - 1) : a[i] = b[i]

(* ------------------------------- nodes --------------------------------- *)
\* A node is named by what its constructor fixes for good: its variant, the
\* thread and the call that allocated it, and its key (RegularNode) or bucket
\* index (DummyNode).  hash and reverse_hash are const members of Node.
RegularNode(t, i, key) == <<"r", t, i, key>>
DummyNode(t, i, b) == <<"d", t, i, b>>
\* new V(value_): the value object a RegularNode is constructed with.
ValueObj(t, i, v) == <<"v", t, i, v>>
ValueOf(vo) == vo[4]

IsDummy(n) == n[1] = "d"
KeyOf(n) == n[4]
HashOf(n) == IF IsDummy(n) THEN n[4] ELSE hash_func_(n[4])
reverse_hash(n) == IF IsDummy(n) THEN DummyKey(HashOf(n)) ELSE RegularKey(HashOf(n))

\* The dummy of bucket 0 the table's constructor installs.
RootDummy == DummyNode(0, 0, 0)

Less(node1, node2) ==
  IF reverse_hash(node1) # reverse_hash(node2)
  THEN WordLess(reverse_hash(node1), reverse_hash(node2))
  ELSE IF IsDummy(node1) \/ IsDummy(node2) THEN FALSE
  ELSE KeyOf(node1) < KeyOf(node2)

\* The assertion inside Less: equal reverse hashes with exactly one dummy.
LessAssertFails(node1, node2) ==
  /\ reverse_hash(node1) = reverse_hash(node2)
  /\ IsDummy(node1) # IsDummy(node2)

\* A comparison that passes over the node of the key searched for.
GreaterOnly(node1, node2) == Less(node2, node1)

\* A comparison that never recognises the key searched for.
EqualsNever(node1, node2) == FALSE

\* A comparison that stops every search at the first node.
GreaterAlways(node1, node2) == TRUE

GreaterOrEquals(node1, node2) == ~Less(node1, node2)
Equals(node1, node2) == ~Less(node1, node2) /\ ~Less(node2, node1)

(* ------------------------------ buckets -------------------------------- *)
\* 2^k, and the most significant set bit of b >= 1.
RECURSIVE Pow2(_)
Pow2(k) == IF k = 0 THEN 1 ELSE 2 * Pow2(k - 1)

RECURSIVE HighBit(_)
HighBit(b) == IF b <= 1 THEN b ELSE 2 * HighBit(b \div 2)

\* A parent that is the bucket before, whatever its bits.
GetBucketParentPrev(bucket_index) == bucket_index - 1

GetBucketParent(bucket_index) == bucket_index - HighBit(bucket_index)


(* ------------------------------- state --------------------------------- *)
VARIABLES
  nxt,              \* Node::next of every allocated node: [ptr, mark]
  val,              \* RegularNode::value of every allocated regular node
  freed,            \* nodes whose memory has been deleted
  vfreed,           \* value objects whose memory has been deleted
  bucket,           \* the bucket slots of the segment tree, by bucket index
  power_of_2_,      \* bucket size == 2^power_of_2_
  size_,            \* item size (see SizeWrapped for the unsigned reading)
  hpList,           \* g_hazard_pointer_list: the records from head on
  hpRec,            \* every HazardPointer record: [flag, ptr]
  hpSize,           \* g_hazard_pointer_list.size
  hazard_pointers_, \* per thread: the records its Reclaimer owns, in slot order
  reclaim_map_,     \* per thread: the retired nodes
  pc,               \* per thread: the statement it executes next
  loc,              \* per thread: the locals of the call in progress
  opn,              \* per thread: public calls started so far
  last,             \* per thread: the call that returned last, until the next
  nLinked,          \* successful link CASes of InsertRegularNode so far
  nDeleted,         \* per key: Delete calls that returned true so far
  known,            \* per key: what the calls that returned so far determine
  crash             \* "" while the process runs, else why it aborted

tableVars == <<nxt, val, freed, vfreed, bucket, power_of_2_, size_>>
regVars == <<hpList, hpRec, hpSize, hazard_pointers_>>
ghostVars == <<nLinked, nDeleted, known>>
vars == <<nxt, val, freed, vfreed, bucket, power_of_2_, size_, hpList, hpRec,
          hpSize, hazard_pointers_, reclaim_map_, pc, loc, opn, last,
          nLinked, nDeleted, known, crash>>

\* The largest bucket index a hash of the model can select.
MaxBucket == NThreads * MaxOps + MaxKey
AllKeys == 0..MaxBucket

\* known[k]: the value the last Insert(k, v) left, Absent, or Unknown while
\* writers of k overlap (no sequential reading of the history fixes it).
Absent == [st |-> "absent", v |-> 0]
Unknown == [st |-> "unknown", v |-> 0]
Value(v) == [st |-> "value", v |-> v]
Present(x) == x.st = "value"

NoPtr == [ptr |-> Null, mark |-> FALSE]
Ref(n) == [ptr |-> n, mark |-> FALSE]

IdleLoc ==
  [op |-> "", key |-> 0, val |-> 0, new_node |-> Null, head |-> Null,
   bidx |-> 0, stack |-> <<>>, shead |-> Null, snode |-> Null, caller |-> "",
   prev |-> Null, cur |-> Null, next |-> NoPtr, hp0 |-> Null, hp1 |-> Null,
   found |-> FALSE, ret |-> FALSE, got |-> 0, vp |-> Null, after |-> "",
   walk |-> <<>>, victim |-> Null, slot |-> 0, size |-> 0, power |-> 0,
   rafter |-> "", snap |-> {}, exp |-> Absent, clean |-> TRUE, marked |-> Null,
   reissued |-> {}, new_head |-> Null]

NoCall ==
  [op |-> "", key |-> 0, val |-> 0, ret |-> FALSE, got |-> 0, exp |-> Absent]

\* The first HazardPointer, made by HazardPointerList's constructor.
Rec0 == <<0, 0>>
\* A record thread t allocates: i tells its records apart.
RecOf(t, i) == <<t, i>>
FreeRec == [flag |-> FALSE, ptr |-> Null]
BusyRec == [flag |-> TRUE, ptr |-> Null]

\* LockFreeHashTable(): power_of_2_(1), size_(0), the dummy of bucket 0 stored
\* in bucket slot 0 (the segments above it are allocated here as well).
TableInit ==
  /\ nxt = (RootDummy :> NoPtr)
  /\ val = [n \in {} |-> Null]
  /\ freed = {}
  /\ vfreed = {}
  /\ bucket = [b \in 0..MaxBucket |-> IF b = 0 THEN RootDummy ELSE Null]
  /\ power_of_2_ = 1
  /\ size_ = 0

ThreadInit ==
  /\ reclaim_map_ = [t \in Threads |-> {}]
  /\ pc = [t \in Threads |-> "idle"]
  /\ loc = [t \in Threads |-> IdleLoc]
  /\ opn = [t \in Threads |-> 0]
  /\ last = [t \in Threads |-> NoCall]
  /\ nLinked = 0
  /\ nDeleted = [k \in AllKeys |-> 0]
  /\ known = [k \in AllKeys |-> Absent]
  /\ crash = ""

\* No thread has called Reclaimer::GetInstance yet.
Init ==
  /\ TableInit
  /\ ThreadInit
  /\ hpList = <<Rec0>>
  /\ hpRec = (Rec0 :> FreeRec)
  /\ hpSize = 0
  /\ hazard_pointers_ = [t \in Threads |-> <<>>]

\* The records of threads 1..n, each Reclaimer constructed after the one before:
\* thread 1 takes Rec0 and pushes two records, every later thread pushes three.
RECURSIVE ReadyList(_)
ReadyList(n) ==
  IF n = 0 THEN <<>>
  ELSE IF n = 1 THEN <<RecOf(1, 2), RecOf(1, 1), Rec0>>
  ELSE <<RecOf(n, 2), RecOf(n, 1), RecOf(n, 0)>> \o ReadyList(n - 1)

ReadySlots(t) ==
  IF t = 1 THEN <<Rec0, RecOf(1, 1), RecOf(1, 2)>>
  ELSE <<RecOf(t, 0), RecOf(t, 1), RecOf(t, 2)>>

Range(s) == {s[i] : i \in DOMAIN s}

\* Every thread has constructed its Reclaimer, in thread order, and the table
\* is as its constructor left it (each thread ran a Find of key 0 on the empty table).
InitReady ==
  /\ TableInit
  /\ ThreadInit
  /\ hpList = ReadyList(NThreads)
  /\ hpRec = [r \in Range(ReadyList(NThreads)) |-> BusyRec]
  /\ hpSize = 3 * NThreads - 1
  /\ hazard_pointers_ = [t \in Threads |-> ReadySlots(t)]

(* ------------------------------ helpers -------------------------------- *)
Running == crash = ""
At(t, p) == Running /\ pc[t] = p
Goto(t, p) == pc' = [pc EXCEPT ![t] = p]
SetLoc(t, r) == loc' = [loc EXCEPT ![t] = r]
L(t) == loc[t]

Constructed(t) == Len(hazard_pointers_[t]) = kHarzardPointersPerThread

\* Reclaimer::MarkHazard(index, ptr), index 0-based as in the code.
MarkHazard(t, index, ptr) ==
  hpRec' = [hpRec EXCEPT ![hazard_pointers_[t][index + 1]].ptr = ptr]

\* Reclaimer::GetHazardPtr(index).
GetHazardPtr(t, index) == hpRec[hazard_pointers_[t][index + 1]].ptr

\* The addresses thread t has published.
Published(t) == {hpRec[hazard_pointers_[t][i]].ptr : i \in DOMAIN hazard_pointers_[t]}

\* size_ is an unsigned 64-bit counter; the model keeps the signed sum of the
\* fetch_adds and fetch_subs, a negative sum standing for 2^64 + size_.
SizeWrapped(s) == s < 0

\* A load-factor test that fires as soon as the load factor is reached.
LoadReached(power, s) ==
  SizeWrapped(s) \/ Pow2(power) * kLoadFactorNum <= s * kLoadFactorDen

\* (1 << power) * kLoadFactor < size, size being size_t.
LoadExceeded(power, s) ==
  SizeWrapped(s) \/ Pow2(power) * kLoadFactorNum < s * kLoadFactorDen

\* SearchNode is entered through Reclaimer::GetInstance, which constructs the
\* thread's Reclaimer on first use.
SearchEntry(t) == IF Constructed(t) THEN "S0" ELSE "R0"


\* The search key of the public call: Insert searches with its new node,
\* Delete and Find with a RegularNode on their stack (never linked).
OpNode(t, l) ==
  IF l.op = "Insert" THEN l.new_node ELSE RegularNode(t, opn[t], l.key)

OpCaller(op) ==
  CASE op = "Insert" -> "ins" [] op = "Delete" -> "del" [] OTHER -> "find"

\* GetBucketHeadByHash has its head: the list operation of the call begins.
BeginOp(t, l, h) ==
  [l EXCEPT !.head = h, !.shead = h, !.snode = OpNode(t, l),
            !.caller = OpCaller(l.op), !.stack = <<>>]

\* InitializeBucket returns h: to the InitializeBucket that recursed into it
\* (as its parent_head), or to GetBucketHeadByHash.
InitReturn(t, l, h) ==
  IF Len(l.stack) = 1 THEN BeginOp(t, l, h)
  ELSE LET st == SubSeq(l.stack, 1, Len(l.stack) - 1)
       IN [l EXCEPT !.stack = [st EXCEPT ![Len(st)].parent_head = h]]

InitReturnPc(t, l) == IF Len(l.stack) = 1 THEN SearchEntry(t) ELSE "B1"

\* SearchNode returns `found` to its caller.
SearchRetLoc(l, found) ==
  LET l2 == [l EXCEPT !.found = found, !.hp0 = Null, !.hp1 = Null, !.next = NoPtr]
  IN CASE l.caller = "find" /\ ~found -> [l2 EXCEPT !.ret = FALSE, !.after = "ret"]
       [] l.caller = "del" /\ ~found -> [l2 EXCEPT !.ret = FALSE, !.after = "ret"]
       [] l.caller = "del2" -> [l2 EXCEPT !.ret = TRUE, !.after = "ret"]
       [] l.caller = "dum" /\ found -> [l2 EXCEPT !.after = "BF"]
       [] OTHER -> l2

SearchRetPc(l, found) ==
  CASE l.caller = "find" -> IF found THEN "F1" ELSE "H0"
    [] l.caller = "ins" -> IF found THEN "I1" ELSE "I3"
    [] l.caller = "dum" -> IF found THEN "H0" ELSE "BI"
    [] l.caller = "del" -> IF found THEN "D1" ELSE "H0"
    [] OTHER -> "H0"

\* The public call returns.
Finish(t, l) ==
  /\ last' = [last EXCEPT ![t] =
       [op |-> l.op, key |-> l.key, val |-> l.val, ret |-> l.ret, got |-> l.got,
        exp |-> l.exp]]
  /\ known' = CASE l.op = "Insert" ->
                    [known EXCEPT ![l.key] = IF l.clean THEN Value(l.val) ELSE Unknown]
                [] l.op = "Delete" /\ l.ret ->
                    [known EXCEPT ![l.key] = IF l.clean THEN Absent ELSE Unknown]
                [] OTHER -> known
  /\ nDeleted' = IF l.op = "Delete" /\ l.ret
                 THEN [nDeleted EXCEPT ![l.key] = @ + 1] ELSE nDeleted
  /\ loc' = [loc EXCEPT ![t] = IdleLoc]
  /\ pc' = [pc EXCEPT ![t] = "idle"]

\* compare_exchange_weak may fail although the expected value is there.
SpuriousFailure == {FALSE, TRUE}

(* ---------------------------- public calls ----------------------------- *)
InsertCall(key, v) == [op |-> "Insert", key |-> key, val |-> v]
DeleteCall(key) == [op |-> "Delete", key |-> key, val |-> 0]
FindCall(key) == [op |-> "Find", key |-> key, val |-> 0]

\* The writers of key in flight, other than t's.
Writers(t, key, ops) ==
  {u \in Threads \ {t} : loc[u].op \in ops /\ loc[u].key = key}

\* What the call c of another thread does to the bookkeeping of a call in
\* flight on the same key: a writer overlaps it.
Overlap(l, c) ==
  IF l.op = "" \/ l.key # c.key \/ c.op = "Find" THEN l
  ELSE CASE l.op = "Insert" -> [l EXCEPT !.clean = FALSE]
         [] l.op = "Delete" -> [l EXCEPT !.clean = @ /\ c.op = "Delete"]
         [] OTHER -> [l EXCEPT !.exp =
                        IF c.op = "Delete" /\ @ = Absent THEN Absent ELSE Unknown]

\* Insert, Delete, Find up to the call of GetBucketHeadByHash.  Insert first
\* allocates new RegularNode(key, value, hash_func_), with next == nullptr.
Call(t, c) ==
  /\ At(t, "idle")
  /\ LET i == opn[t] + 1
         n == RegularNode(t, i, c.key)
         mine == [IdleLoc EXCEPT !.op = c.op, !.key = c.key, !.val = c.val,
                    !.exp = known[c.key],
                    !.clean = IF c.op = "Insert"
                              THEN Writers(t, c.key, {"Insert", "Delete"}) = {}
                              ELSE Writers(t, c.key, {"Insert"}) = {}]
     IN /\ opn' = [opn EXCEPT ![t] = i]
        /\ last' = [last EXCEPT ![t] = NoCall]
        /\ IF c.op = "Insert"
           THEN /\ nxt' = nxt @@ (n :> NoPtr)
                /\ val' = val @@ (n :> ValueObj(t, i, c.val))
           ELSE UNCHANGED <<nxt, val>>
        /\ loc' = [u \in Threads |->
                     IF u = t
                     THEN (IF c.op = "Insert" THEN [mine EXCEPT !.new_node = n] ELSE mine)
                     ELSE Overlap(loc[u], c)]
        /\ known' = CASE c.op = "Insert" -> [known EXCEPT ![c.key] = Unknown]
                      [] c.op = "Delete" /\ known[c.key] # Absent ->
                           [known EXCEPT ![c.key] = Unknown]
                      [] OTHER -> known
  /\ Goto(t, "G0")
  /\ UNCHANGED <<freed, vfreed, bucket, power_of_2_, size_, regVars,
                 reclaim_map_, nLinked, nDeleted, crash>>

\* GetBucketHeadByHash: bucket_index = hash % bucket_size().
GetBucketHeadByHash(t) ==
  /\ At(t, "G0")
  /\ SetLoc(t, [L(t) EXCEPT !.bidx = hash_func_(L(t).key) % Pow2(power_of_2_)])
  /\ Goto(t, "G1")
  /\ UNCHANGED <<tableVars, regVars, reclaim_map_, opn, last, ghostVars, crash>>

\* GetBucketHeadByIndex(bucket_index): the segments on the way to a bucket
\* index below kSegmentSize are those the constructor installed, so the walk
\* ends in the load of the bucket slot.  A null head starts InitializeBucket.
GetBucketHeadByIndex(t) ==
  /\ At(t, "G1")
  /\ LET h == bucket[L(t).bidx]
     IN IF h = Null
        THEN /\ SetLoc(t, [L(t) EXCEPT !.stack =
                    <<[b |-> L(t).bidx, parent_head |-> Null, new_head |-> Null]>>])
             /\ Goto(t, "B0")
        ELSE /\ SetLoc(t, BeginOp(t, L(t), h))
             /\ Goto(t, SearchEntry(t))
  /\ UNCHANGED <<tableVars, regVars, reclaim_map_, opn, last, ghostVars, crash>>

(* -------------------------- InitializeBucket --------------------------- *)
Top(l) == l.stack[Len(l.stack)]

\* An InitializeBucket that searches from the dummy of bucket 0 and leaves
\* the parent bucket as it is.
InitializeBucketParentRoot(t) ==
  /\ At(t, "B0")
  /\ SetLoc(t, [L(t) EXCEPT !.stack[Len(L(t).stack)].parent_head = bucket[0]])
  /\ Goto(t, "B1")
  /\ UNCHANGED <<tableVars, regVars, reclaim_map_, opn, last, ghostVars, crash>>

\* parent_head = GetBucketHeadByIndex(parent_index); a null parent head is
\* initialised first, by the recursive call.
InitializeBucketParent(t) ==
  /\ At(t, "B0")
  /\ LET l == L(t)
         parent_index == GetBucketParent(Top(l).b)
         ph == bucket[parent_index]
     IN IF ph = Null
        THEN /\ SetLoc(t, [l EXCEPT !.stack = Append(l.stack,
                    [b |-> parent_index, parent_head |-> Null, new_head |-> Null])])
             /\ Goto(t, "B0")
        ELSE /\ SetLoc(t, [l EXCEPT !.stack[Len(l.stack)].parent_head = ph])
             /\ Goto(t, "B1")
  /\ UNCHANGED <<tableVars, regVars, reclaim_map_, opn, last, ghostVars, crash>>

\* The walk to the bucket slot and its load; a null slot makes the thread
\* allocate a DummyNode and call InsertDummyNode(parent_head, head, &real_head).
InitializeBucketLoad(t) ==
  /\ At(t, "B1")
  /\ LET l == L(t)
         h == bucket[Top(l).b]
         d == DummyNode(t, opn[t], Top(l).b)
     IN IF h # Null
        THEN /\ SetLoc(t, InitReturn(t, l, h))
             /\ Goto(t, InitReturnPc(t, l))
             /\ UNCHANGED nxt
        ELSE /\ nxt' = nxt @@ (d :> NoPtr)
             /\ SetLoc(t, [l EXCEPT !.stack[Len(l.stack)].new_head = d,
                                    !.shead = Top(l).parent_head,
                                    !.snode = d, !.caller = "dum"])
             /\ Goto(t, SearchEntry(t))
  /\ UNCHANGED <<val, freed, vfreed, bucket, power_of_2_, size_, regVars,
                 reclaim_map_, opn, last, ghostVars, crash>>

\* An InsertDummyNode that reports success without linking the dummy.
InsertDummyNodeSkip(t) ==
  /\ At(t, "BI")
  /\ SetLoc(t, [L(t) EXCEPT !.after = "B2"])
  /\ Goto(t, "H0")
  /\ UNCHANGED <<tableVars, regVars, reclaim_map_, opn, last, ghostVars, crash>>

\* A link of the dummy by a plain store, whatever prev->next holds by now.
InsertDummyNodeBlind(t) ==
  /\ At(t, "BI")
  /\ LET l == L(t)
         d == Top(l).new_head
     IN /\ nxt' = [nxt EXCEPT ![l.prev] = Ref(d), ![d] = Ref(l.cur)]
        /\ SetLoc(t, [l EXCEPT !.after = "B2"])
        /\ Goto(t, "H0")
  /\ UNCHANGED <<val, freed, vfreed, bucket, power_of_2_, size_, regVars,
                 reclaim_map_, opn, last, ghostVars, crash>>

\* A link of the dummy that counts it as an item.
InsertDummyNodeCounted(t) ==
  /\ At(t, "BI")
  /\ LET l == L(t)
         d == Top(l).new_head
     IN IF nxt[l.prev] = Ref(l.cur)
        THEN /\ nxt' = [nxt EXCEPT ![l.prev] = Ref(d), ![d] = Ref(l.cur)]
             /\ size_' = size_ + 1
             /\ SetLoc(t, [l EXCEPT !.after = "B2"])
             /\ Goto(t, "H0")
        ELSE /\ UNCHANGED <<nxt, size_>>
             /\ SetLoc(t, l)
             /\ Goto(t, "S0")
  /\ UNCHANGED <<val, freed, vfreed, bucket, power_of_2_, regVars,
                 reclaim_map_, opn, last, ghostVars, crash>>

\* InsertDummyNode's link: new_head->next = cur; CAS(prev->next, cur, new_head).
InsertDummyNodeCas(t) ==
  /\ At(t, "BI")
  /\ LET l == L(t)
         d == Top(l).new_head
     IN \E spurious \in SpuriousFailure :
          IF nxt[l.prev] = Ref(l.cur) /\ ~spurious
          THEN /\ nxt' = [nxt EXCEPT ![l.prev] = Ref(d), ![d] = Ref(l.cur)]
               /\ SetLoc(t, [l EXCEPT !.after = "B2"])
               /\ Goto(t, "H0")
          ELSE /\ UNCHANGED nxt
               /\ SetLoc(t, l)
               /\ Goto(t, "S0")
  /\ UNCHANGED <<val, freed, vfreed, bucket, power_of_2_, size_, regVars,
                 reclaim_map_, opn, last, ghostVars, crash>>

\* assert(bucket.load() == nullptr) after InsertDummyNode returned true.
InitializeBucketAssert(t) ==
  /\ At(t, "B2")
  /\ IF bucket[Top(L(t)).b] = Null
     THEN Goto(t, "B3") /\ UNCHANGED crash
     ELSE crash' = "assert:InitializeBucket" /\ UNCHANGED pc
  /\ UNCHANGED <<tableVars, regVars, reclaim_map_, loc, opn, last, ghostVars>>

\* bucket.store(head); return head.
InitializeBucketStore(t) ==
  /\ At(t, "B3")
  /\ LET l == L(t)
     IN /\ bucket' = [bucket EXCEPT ![Top(l).b] = Top(l).new_head]
        /\ SetLoc(t, InitReturn(t, l, Top(l).new_head))
        /\ Goto(t, InitReturnPc(t, l))
  /\ UNCHANGED <<nxt, val, freed, vfreed, power_of_2_, size_, regVars,
                 reclaim_map_, opn, last, ghostVars, crash>>

\* InsertDummyNode returned false: delete head; head = real_head (== cur of
\* the search); the two assertions on real_head hold of a node Equals found.
InitializeBucketAdopt(t) ==
  /\ At(t, "BF")
  /\ LET l == L(t)
         d == Top(l).new_head
     IN /\ nxt' = [n \in DOMAIN nxt \ {d} |-> nxt[n]]
        /\ IF IsDummy(l.cur) /\ HashOf(l.cur) = Top(l).b
           THEN /\ SetLoc(t, InitReturn(t, l, l.cur))
                /\ Goto(t, InitReturnPc(t, l))
                /\ UNCHANGED crash
           ELSE /\ crash' = "assert:InitializeBucket"
                /\ UNCHANGED <<pc, loc>>
  /\ UNCHANGED <<val, freed, vfreed, bucket, power_of_2_, size_, regVars,
                 reclaim_map_, opn, last, ghostVars>>


(* ----------------------------- SearchNode ------------------------------ *)
\* try_again: prev = head; cur = prev->get_next().
SearchStart(t) ==
  /\ At(t, "S0")
  /\ SetLoc(t, [L(t) EXCEPT !.prev = L(t).shead, !.cur = nxt[L(t).shead].ptr,
                            !.next = NoPtr, !.hp0 = Null, !.hp1 = Null,
                            !.reissued = {}])
  /\ Goto(t, "S1")
  /\ UNCHANGED <<tableVars, regVars, reclaim_map_, opn, last, ghostVars, crash>>

\* A search that does not publish cur.
SearchMarkCurSkip(t) ==
  /\ At(t, "S1")
  /\ Goto(t, "S2")
  /\ UNCHANGED <<tableVars, regVars, reclaim_map_, loc, opn, last, ghostVars, crash>>

\* reclaimer.MarkHazard(0, cur).
SearchMarkCur(t) ==
  /\ At(t, "S1")
  /\ MarkHazard(t, 0, L(t).cur)
  /\ Goto(t, "S2")
  /\ UNCHANGED <<tableVars, hpList, hpSize, hazard_pointers_, reclaim_map_,
                 loc, opn, last, ghostVars, crash>>

\* A search that goes on without reading prev->next again.
SearchValidateBlind(t) ==
  /\ At(t, "S2")
  /\ LET l == L(t)
     IN IF l.cur = Null
        THEN SetLoc(t, SearchRetLoc(l, FALSE)) /\ Goto(t, SearchRetPc(l, FALSE))
        ELSE SetLoc(t, l) /\ Goto(t, "S3")
  /\ UNCHANGED <<tableVars, regVars, reclaim_map_, opn, last, ghostVars, crash>>

\* if (prev->get_next() != cur) goto try_again; a null cur ends the search.
SearchValidate(t) ==
  /\ At(t, "S2")
  /\ LET l == L(t)
     IN IF nxt[l.prev] # Ref(l.cur)
        THEN SetLoc(t, l) /\ Goto(t, "S0")
        ELSE IF l.cur = Null
        THEN SetLoc(t, SearchRetLoc(l, FALSE)) /\ Goto(t, SearchRetPc(l, FALSE))
        ELSE SetLoc(t, l) /\ Goto(t, "S3")
  /\ UNCHANGED <<tableVars, regVars, reclaim_map_, opn, last, ghostVars, crash>>

\* next = cur->get_next(); is_marked_reference(next) selects the branch.
SearchReadNext(t) ==
  /\ At(t, "S3")
  /\ SetLoc(t, [L(t) EXCEPT !.next = nxt[L(t).cur]])
  /\ Goto(t, IF nxt[L(t).cur].mark THEN "S4" ELSE "S5")
  /\ UNCHANGED <<tableVars, regVars, reclaim_map_, opn, last, ghostVars, crash>>

\* A helping unlink by a plain store, whatever prev->next holds by now.
SearchUnlinkBlind(t) ==
  /\ At(t, "S4")
  /\ nxt' = [nxt EXCEPT ![L(t).prev] = Ref(L(t).next.ptr)]
  /\ Goto(t, "S4a")
  /\ UNCHANGED <<val, freed, vfreed, bucket, power_of_2_, size_, regVars,
                 reclaim_map_, loc, opn, last, ghostVars, crash>>

\* The helping unlink: CAS(prev->next, cur, get_unmarked_reference(next)).
SearchUnlink(t) ==
  /\ At(t, "S4")
  /\ LET l == L(t)
     IN IF nxt[l.prev] = Ref(l.cur)
        THEN nxt' = [nxt EXCEPT ![l.prev] = Ref(l.next.ptr)] /\ Goto(t, "S4a")
        ELSE UNCHANGED nxt /\ Goto(t, "S0")
  /\ UNCHANGED <<val, freed, vfreed, bucket, power_of_2_, size_, regVars,
                 reclaim_map_, loc, opn, last, ghostVars, crash>>

\* A ReclaimNoHazardPointer that returns whatever the size of reclaim_map_.
RetireNoScan(t, ptr, resume) ==
  /\ reclaim_map_' = [reclaim_map_ EXCEPT ![t] = @ \cup {ptr}]
  /\ SetLoc(t, L(t))
  /\ Goto(t, resume)

\* Reclaimer::ReclaimLater(ptr) followed by the entry of ReclaimNoHazardPointer:
\* it returns at once while reclaim_map_.size() < kCoefficient * list size.
\* `resume` is where the caller goes on.
Retire(t, ptr, resume) ==
  LET m == reclaim_map_[t] \cup {ptr}
  IN /\ reclaim_map_' = [reclaim_map_ EXCEPT ![t] = m]
     /\ IF Cardinality(m) < kCoefficient * hpSize
        THEN SetLoc(t, L(t)) /\ Goto(t, resume)
        ELSE SetLoc(t, [L(t) EXCEPT !.rafter = resume]) /\ Goto(t, "N0")

\* After the helping unlink: ReclaimLater(cur); ReclaimNoHazardPointer().
SearchRetire(t) ==
  /\ At(t, "S4a")
  /\ Retire(t, L(t).cur, "S4b")
  /\ UNCHANGED <<tableVars, regVars, opn, last, ghostVars, crash>>

\* A helping unlink that leaves size_ alone.
SearchSizeKeep(t) ==
  /\ At(t, "S4b")
  /\ SetLoc(t, [L(t) EXCEPT !.cur = L(t).next.ptr, !.next = NoPtr,
                            !.reissued = {}])
  /\ Goto(t, "S1")
  /\ UNCHANGED <<tableVars, regVars, reclaim_map_, opn, last, ghostVars, crash>>

\* size_.fetch_sub(1); cur = get_unmarked_reference(next).
SearchSizeSub(t) ==
  /\ At(t, "S4b")
  /\ size_' = size_ - 1
  /\ SetLoc(t, [L(t) EXCEPT !.cur = L(t).next.ptr, !.next = NoPtr,
                            !.reissued = {}])
  /\ Goto(t, "S1")
  /\ UNCHANGED <<nxt, val, freed, vfreed, bucket, power_of_2_, regVars,
                 reclaim_map_, opn, last, ghostVars, crash>>

\* The unmarked branch: the second validation of prev->next, then the
\* comparison of cur with search_node, which ends the search or advances.
SearchCompare(t) ==
  /\ At(t, "S5")
  /\ LET l == L(t)
     IN IF nxt[l.prev] # Ref(l.cur)
        THEN SetLoc(t, l) /\ Goto(t, "S0") /\ UNCHANGED crash
        ELSE IF LessAssertFails(l.cur, l.snode)
        THEN crash' = "assert:Less" /\ UNCHANGED <<pc, loc>>
        ELSE IF GreaterOrEquals(l.cur, l.snode)
        THEN /\ SetLoc(t, SearchRetLoc(l, Equals(l.cur, l.snode)))
             /\ Goto(t, SearchRetPc(l, Equals(l.cur, l.snode)))
             /\ UNCHANGED crash
        ELSE SetLoc(t, l) /\ Goto(t, "S6") /\ UNCHANGED crash
  /\ UNCHANGED <<tableVars, regVars, reclaim_map_, opn, last, ghostVars>>

\* A swap that does not save hp0 in slot 2.
SearchSwapSaveSkip(t) ==
  /\ At(t, "S6")
  /\ SetLoc(t, [L(t) EXCEPT !.hp0 = GetHazardPtr(t, 0), !.hp1 = GetHazardPtr(t, 1)])
  /\ Goto(t, "S7")
  /\ UNCHANGED <<tableVars, regVars, reclaim_map_, opn, last, ghostVars, crash>>

\* hp0 = GetHazardPtr(0); hp1 = GetHazardPtr(1); MarkHazard(2, hp0).
SearchSwapSave(t) ==
  /\ At(t, "S6")
  /\ SetLoc(t, [L(t) EXCEPT !.hp0 = GetHazardPtr(t, 0), !.hp1 = GetHazardPtr(t, 1)])
  /\ MarkHazard(t, 2, GetHazardPtr(t, 0))
  /\ Goto(t, "S7")
  /\ UNCHANGED <<tableVars, hpList, hpSize, hazard_pointers_, reclaim_map_,
                 opn, last, ghostVars, crash>>

\* MarkHazard(0, hp1).
SearchSwapPrev(t) ==
  /\ At(t, "S7")
  /\ MarkHazard(t, 0, L(t).hp1)
  /\ Goto(t, "S8")
  /\ UNCHANGED <<tableVars, hpList, hpSize, hazard_pointers_, reclaim_map_,
                 loc, opn, last, ghostVars, crash>>

\* MarkHazard(1, hp0).
SearchSwapCur(t) ==
  /\ At(t, "S8")
  /\ MarkHazard(t, 1, L(t).hp0)
  /\ Goto(t, "S9")
  /\ UNCHANGED <<tableVars, hpList, hpSize, hazard_pointers_, reclaim_map_,
                 loc, opn, last, ghostVars, crash>>

\* MarkHazard(2, nullptr); prev = cur; cur = next.
SearchAdvance(t) ==
  /\ At(t, "S9")
  /\ MarkHazard(t, 2, Null)
  /\ SetLoc(t, [L(t) EXCEPT !.prev = L(t).cur, !.cur = L(t).next.ptr,
                            !.next = NoPtr, !.hp0 = Null, !.hp1 = Null,
                            !.reissued = {}])
  /\ Goto(t, "S1")
  /\ UNCHANGED <<tableVars, hpList, hpSize, hazard_pointers_, reclaim_map_,
                 opn, last, ghostVars, crash>>

(* ------------------------- ClearHazardPointer -------------------------- *)
\* reclaimer.MarkHazard(0, nullptr).
ClearHazard0(t) ==
  /\ At(t, "H0")
  /\ MarkHazard(t, 0, Null)
  /\ Goto(t, "H1")
  /\ UNCHANGED <<tableVars, hpList, hpSize, hazard_pointers_, reclaim_map_,
                 loc, opn, last, ghostVars, crash>>

\* A ClearHazardPointer that leaves slot 1 as it is.
ClearHazard1Skip(t) ==
  /\ At(t, "H1")
  /\ IF L(t).after = "ret"
     THEN Finish(t, L(t))
     ELSE Goto(t, L(t).after) /\ UNCHANGED <<loc, last, nDeleted, known>>
  /\ UNCHANGED <<tableVars, regVars, reclaim_map_, opn, nLinked, crash>>

\* reclaimer.MarkHazard(1, nullptr), then on with the caller: the public call
\* returns ("ret") or the function that cleared goes on.
ClearHazard1(t) ==
  /\ At(t, "H1")
  /\ MarkHazard(t, 1, Null)
  /\ IF L(t).after = "ret"
     THEN Finish(t, L(t))
     ELSE Goto(t, L(t).after) /\ UNCHANGED <<loc, last, nDeleted, known>>
  /\ UNCHANGED <<tableVars, hpList, hpSize, hazard_pointers_, reclaim_map_,
                 opn, nLinked, crash>>

(* ------------------------------ FindNode ------------------------------- *)
\* cur->value.load(): the pointer to the value object.
FindLoadValue(t) ==
  /\ At(t, "F1")
  /\ SetLoc(t, [L(t) EXCEPT !.vp = val[L(t).cur]])
  /\ Goto(t, "F2")
  /\ UNCHANGED <<tableVars, regVars, reclaim_map_, opn, last, ghostVars, crash>>

\* value = *ptr; then ClearHazardPointer and return found.
FindCopyValue(t) ==
  /\ At(t, "F2")
  /\ SetLoc(t, [L(t) EXCEPT !.got = ValueOf(L(t).vp), !.ret = TRUE, !.after = "ret"])
  /\ Goto(t, "H0")
  /\ UNCHANGED <<tableVars, regVars, reclaim_map_, opn, last, ghostVars, crash>>

(* -------------------------- InsertRegularNode -------------------------- *)
\* A replace path that keeps the old value and drops the new one.
InsertReplaceKeep(t) ==
  /\ At(t, "I1")
  /\ LET l == L(t)
     IN /\ val' = [n \in DOMAIN val \ {l.new_node} |-> val[n]]
        /\ vfreed' = vfreed \cup {val[l.new_node]}
        /\ nxt' = [n \in DOMAIN nxt \ {l.new_node} |-> nxt[n]]
        /\ SetLoc(t, [l EXCEPT !.ret = FALSE, !.after = "ret"])
  /\ Goto(t, "H0")
  /\ UNCHANGED <<freed, bucket, power_of_2_, size_, regVars, reclaim_map_,
                 opn, last, ghostVars, crash>>

\* The key is there: old_value = cur->value.exchange(new_value); delete
\* old_value; new_node->value = nullptr; delete new_node.
InsertReplace(t) ==
  /\ At(t, "I1")
  /\ LET l == L(t)
     IN /\ val' = [n \in DOMAIN val \ {l.new_node} |->
                     IF n = l.cur THEN val[l.new_node] ELSE val[n]]
        /\ vfreed' = vfreed \cup {val[l.cur]}
        /\ nxt' = [n \in DOMAIN nxt \ {l.new_node} |-> nxt[n]]
        /\ SetLoc(t, [l EXCEPT !.ret = FALSE, !.after = "ret"])
  /\ Goto(t, "H0")
  /\ UNCHANGED <<freed, bucket, power_of_2_, size_, regVars, reclaim_map_,
                 opn, last, ghostVars, crash>>

\* A link CAS that fails every time.
InsertLinkNever(t) ==
  /\ At(t, "I3")
  /\ SetLoc(t, L(t))
  /\ Goto(t, "S0")
  /\ UNCHANGED <<tableVars, regVars, reclaim_map_, opn, last, ghostVars, crash>>

\* A link by a plain store, whatever prev->next holds by now.
InsertLinkBlind(t) ==
  /\ At(t, "I3")
  /\ LET l == L(t)
     IN /\ nxt' = [nxt EXCEPT ![l.prev] = Ref(l.new_node),
                              ![l.new_node] = Ref(l.cur)]
        /\ nLinked' = nLinked + 1
        /\ SetLoc(t, [l EXCEPT !.after = "I5"])
        /\ Goto(t, "H0")
  /\ UNCHANGED <<val, freed, vfreed, bucket, power_of_2_, size_, regVars,
                 reclaim_map_, opn, last, nDeleted, known, crash>>

\* new_node->next = cur; CAS(prev->next, cur, new_node), which ends the loop
\* or sends the thread back to SearchNode.
InsertLink(t) ==
  /\ At(t, "I3")
  /\ LET l == L(t)
     IN \E spurious \in SpuriousFailure :
          IF nxt[l.prev] = Ref(l.cur) /\ ~spurious
          THEN /\ nxt' = [nxt EXCEPT ![l.prev] = Ref(l.new_node),
                                     ![l.new_node] = Ref(l.cur)]
               /\ nLinked' = nLinked + 1
               /\ SetLoc(t, [l EXCEPT !.after = "I5"])
               /\ Goto(t, "H0")
          ELSE /\ UNCHANGED <<nxt, nLinked>>
               /\ SetLoc(t, l)
               /\ Goto(t, "S0")
  /\ UNCHANGED <<val, freed, vfreed, bucket, power_of_2_, size_, regVars,
                 reclaim_map_, opn, last, nDeleted, known, crash>>

\* if (size_ == 5) { ...Dump(); assert(false); }
InsertDebugCheck(t) ==
  /\ At(t, "I5")
  /\ IF size_ = kDebugSize
     THEN crash' = "assert:InsertRegularNode" /\ UNCHANGED pc
     ELSE Goto(t, "I6") /\ UNCHANGED crash
  /\ UNCHANGED <<tableVars, regVars, reclaim_map_, loc, opn, last, ghostVars>>

\* size = size_.fetch_add(1) + 1.
InsertSizeAdd(t) ==
  /\ At(t, "I6")
  /\ size_' = size_ + 1
  /\ SetLoc(t, [L(t) EXCEPT !.size = size_ + 1])
  /\ Goto(t, "I7")
  /\ UNCHANGED <<nxt, val, freed, vfreed, bucket, power_of_2_, regVars,
                 reclaim_map_, opn, last, ghostVars, crash>>

\* power = power_of_2_.load(); the load-factor test.
InsertLoadPower(t) ==
  /\ At(t, "I7")
  /\ IF LoadExceeded(power_of_2_, L(t).size)
     THEN /\ SetLoc(t, [L(t) EXCEPT !.power = power_of_2_])
          /\ Goto(t, "I8")
          /\ UNCHANGED <<last, nDeleted, known>>
     ELSE Finish(t, L(t))
  /\ UNCHANGED <<tableVars, regVars, reclaim_map_, opn, nLinked, crash>>

\* A growth by fetch_add, whatever power_of_2_ holds by now.
InsertGrowAdd(t) ==
  /\ At(t, "I8")
  /\ power_of_2_' = power_of_2_ + 1
  /\ Finish(t, L(t))
  /\ UNCHANGED <<nxt, val, freed, vfreed, bucket, size_, regVars,
                 reclaim_map_, opn, nLinked, crash>>

\* power_of_2_.compare_exchange_strong(power, power + 1).
InsertGrow(t) ==
  /\ At(t, "I8")
  /\ power_of_2_' = IF power_of_2_ = L(t).power THEN power_of_2_ + 1 ELSE power_of_2_
  /\ Finish(t, L(t))
  /\ UNCHANGED <<nxt, val, freed, vfreed, bucket, size_, regVars,
                 reclaim_map_, opn, nLinked, crash>>

(* ----------------------------- DeleteNode ------------------------------ *)
\* next = cur->get_next(); a marked next sends the thread back to SearchNode.
DeleteReadNext(t) ==
  /\ At(t, "D1")
  /\ SetLoc(t, [L(t) EXCEPT !.next = nxt[L(t).cur], !.reissued = @ \ {"next"}])
  /\ Goto(t, IF nxt[L(t).cur].mark THEN "S0" ELSE "D2")
  /\ UNCHANGED <<tableVars, regVars, reclaim_map_, opn, last, ghostVars, crash>>

\* A logical delete by a plain store, whether or not cur is marked by now.
DeleteMarkBlind(t) ==
  /\ At(t, "D2")
  /\ nxt' = [nxt EXCEPT ![L(t).cur] = [ptr |-> L(t).next.ptr, mark |-> TRUE]]
  /\ SetLoc(t, [L(t) EXCEPT !.marked = L(t).cur])
  /\ Goto(t, "D3")
  /\ UNCHANGED <<val, freed, vfreed, bucket, power_of_2_, size_, regVars,
                 reclaim_map_, opn, last, ghostVars, crash>>

\* A logical delete that marks the next-pointer of prev, the node before the
\* one the search found.
DeleteMarkPrev(t) ==
  /\ At(t, "D2")
  /\ nxt' = [nxt EXCEPT ![L(t).prev].mark = TRUE]
  /\ SetLoc(t, [L(t) EXCEPT !.marked = L(t).prev])
  /\ Goto(t, "D3")
  /\ UNCHANGED <<val, freed, vfreed, bucket, power_of_2_, size_, regVars,
                 reclaim_map_, opn, last, ghostVars, crash>>

\* The logical delete: CAS(cur->next, next, get_marked_reference(next)).
\* loc.marked remembers the node for the properties (SearchNode overwrites cur).
DeleteMark(t) ==
  /\ At(t, "D2")
  /\ LET l == L(t)
     IN \E spurious \in SpuriousFailure :
          IF nxt[l.cur] = l.next /\ ~spurious
          THEN /\ nxt' = [nxt EXCEPT ![l.cur].mark = TRUE]
               /\ SetLoc(t, [l EXCEPT !.marked = l.cur])
               /\ Goto(t, "D3")
          ELSE /\ UNCHANGED nxt
               /\ SetLoc(t, l)
               /\ Goto(t, "S0")
  /\ UNCHANGED <<val, freed, vfreed, bucket, power_of_2_, size_, regVars,
                 reclaim_map_, opn, last, ghostVars, crash>>

\* A Delete that returns true when its unlink CAS fails, without the search
\* that helps.
DeleteUnlinkNoHelp(t) ==
  /\ At(t, "D3")
  /\ LET l == L(t)
     IN IF nxt[l.prev] = Ref(l.cur)
        THEN /\ nxt' = [nxt EXCEPT ![l.prev] = Ref(l.next.ptr)]
             /\ SetLoc(t, [l EXCEPT !.ret = TRUE, !.after = "ret"])
             /\ Goto(t, "D4")
        ELSE /\ UNCHANGED nxt
             /\ SetLoc(t, [l EXCEPT !.ret = TRUE, !.after = "ret"])
             /\ Goto(t, "H0")
  /\ UNCHANGED <<val, freed, vfreed, bucket, power_of_2_, size_, regVars,
                 reclaim_map_, opn, last, ghostVars, crash>>

\* A Delete that goes on to retire cur whether its unlink CAS succeeded or not.
DeleteUnlinkAlways(t) ==
  /\ At(t, "D3")
  /\ LET l == L(t)
     IN /\ IF nxt[l.prev] = Ref(l.cur)
           THEN nxt' = [nxt EXCEPT ![l.prev] = Ref(l.next.ptr)]
           ELSE UNCHANGED nxt
        /\ SetLoc(t, [l EXCEPT !.ret = TRUE, !.after = "ret"])
        /\ Goto(t, "D4")
  /\ UNCHANGED <<val, freed, vfreed, bucket, power_of_2_, size_, regVars,
                 reclaim_map_, opn, last, ghostVars, crash>>

\* The physical unlink: CAS(prev->next, cur, next); when it fails the thread
\* searches once more, to help the unlink.
DeleteUnlink(t) ==
  /\ At(t, "D3")
  /\ LET l == L(t)
     IN IF nxt[l.prev] = Ref(l.cur)
        THEN /\ nxt' = [nxt EXCEPT ![l.prev] = Ref(l.next.ptr)]
             /\ SetLoc(t, [l EXCEPT !.ret = TRUE, !.after = "ret"])
             /\ Goto(t, "D4")
        ELSE /\ UNCHANGED nxt
             /\ SetLoc(t, [l EXCEPT !.caller = "del2"])
             /\ Goto(t, "S0")
  /\ UNCHANGED <<val, freed, vfreed, bucket, power_of_2_, size_, regVars,
                 reclaim_map_, opn, last, ghostVars, crash>>

\* A Delete that leaves size_ alone.
DeleteSizeKeep(t) ==
  /\ At(t, "D4")
  /\ Goto(t, "D5")
  /\ UNCHANGED <<tableVars, regVars, reclaim_map_, loc, opn, last, ghostVars, crash>>

\* size_.fetch_sub(1).
DeleteSizeSub(t) ==
  /\ At(t, "D4")
  /\ size_' = size_ - 1
  /\ Goto(t, "D5")
  /\ UNCHANGED <<nxt, val, freed, vfreed, bucket, power_of_2_, regVars,
                 reclaim_map_, loc, opn, last, ghostVars, crash>>

\* ReclaimLater(cur); ReclaimNoHazardPointer(); then ClearHazardPointer.
DeleteRetire(t) ==
  /\ At(t, "D5")
  /\ Retire(t, L(t).cur, "H0")
  /\ UNCHANGED <<tableVars, regVars, opn, last, ghostVars, crash>>


(* ------------------- Reclaimer::ReclaimNoHazardPointer ----------------- *)
\* Past the threshold: head.load(), the start of the scan of the records.
ScanStart(t) ==
  /\ At(t, "N0")
  /\ SetLoc(t, [L(t) EXCEPT !.walk = hpList, !.snap = {}])
  /\ Goto(t, "N1")
  /\ UNCHANGED <<tableVars, regVars, reclaim_map_, opn, last, ghostVars, crash>>

\* One p->ptr.load() of the scan; a non-null ptr joins not_allow_delete_set.
ScanRead(t) ==
  /\ At(t, "N1")
  /\ LET l == L(t)
         ptr == hpRec[Head(l.walk)].ptr
     IN /\ SetLoc(t, [l EXCEPT !.walk = Tail(l.walk),
                      !.snap = IF ptr = Null THEN l.snap ELSE l.snap \cup {ptr}])
        /\ Goto(t, IF Len(l.walk) = 1 THEN "N2" ELSE "N1")
  /\ UNCHANGED <<tableVars, regVars, reclaim_map_, opn, last, ghostVars, crash>>

\* delete of a node: ~RegularNode deletes the value object it points to.
ValuesOf(ns) == {val[n] : n \in {m \in ns : ~IsDummy(m)}} \ {Null}

\* Every retired pointer outside not_allow_delete_set is deleted and erased.
ScanDelete(t) ==
  /\ At(t, "N2")
  /\ LET l == L(t)
         dead == reclaim_map_[t] \ l.snap
     IN /\ freed' = freed \cup dead
        /\ vfreed' = vfreed \cup ValuesOf(dead)
        /\ reclaim_map_' = [reclaim_map_ EXCEPT ![t] = @ \ dead]
        /\ SetLoc(t, [l EXCEPT !.snap = {}, !.walk = <<>>, !.rafter = ""])
        /\ Goto(t, l.rafter)
  /\ UNCHANGED <<nxt, val, bucket, power_of_2_, size_, regVars, opn, last,
                 ghostVars, crash>>

(* ------------------------- Reclaimer::Reclaimer ------------------------ *)
\* The thread owns the record it acquired for slot Len(hazard_pointers_[t]);
\* after the last slot the SearchNode that called GetInstance begins.
Acquire(t, rec) ==
  /\ hazard_pointers_' = [hazard_pointers_ EXCEPT ![t] = Append(@, rec)]
  /\ SetLoc(t, [L(t) EXCEPT !.walk = <<>>, !.new_head = Null])
  /\ Goto(t, IF Len(hazard_pointers_[t]) + 1 = kHarzardPointersPerThread
             THEN "S0" ELSE "R0")

\* p = head.load(), for the slot to fill.
CtorLoadHead(t) ==
  /\ At(t, "R0")
  /\ SetLoc(t, [L(t) EXCEPT !.walk = hpList])
  /\ Goto(t, "R1")
  /\ UNCHANGED <<tableVars, regVars, reclaim_map_, opn, last, ghostVars, crash>>

\* A constructor that takes the first record whether or not its flag is set.
CtorTakeFirst(t) ==
  /\ At(t, "R1")
  /\ hpRec' = [hpRec EXCEPT ![Head(L(t).walk)].flag = TRUE]
  /\ Acquire(t, Head(L(t).walk))
  /\ UNCHANGED <<tableVars, hpList, hpSize, reclaim_map_, opn, last,
                 ghostVars, crash>>

\* p->flag.test_and_set(): an idle record is taken, a busy one passed.
CtorTestAndSet(t) ==
  /\ At(t, "R1")
  /\ LET l == L(t)
         p == Head(l.walk)
     IN IF ~hpRec[p].flag
        THEN /\ hpRec' = [hpRec EXCEPT ![p].flag = TRUE]
             /\ Acquire(t, p)
        ELSE /\ UNCHANGED <<hpRec, hazard_pointers_>>
             /\ SetLoc(t, [l EXCEPT !.walk = Tail(l.walk)])
             /\ Goto(t, IF Len(l.walk) = 1 THEN "R2" ELSE "R1")
  /\ UNCHANGED <<tableVars, hpList, hpSize, reclaim_map_, opn, last,
                 ghostVars, crash>>

\* No idle record: new_head = new HazardPointer(), its flag set;
\* size.fetch_add(1).  The size before the fetch_add numbers the record (no
\* two allocations of one thread see the same size).
CtorAllocate(t) ==
  /\ At(t, "R2")
  /\ LET new_head == RecOf(t, kHarzardPointersPerThread + hpSize)
     IN /\ hpRec' = hpRec @@ (new_head :> BusyRec)
        /\ SetLoc(t, [L(t) EXCEPT !.new_head = new_head])
  /\ hpSize' = hpSize + 1
  /\ Goto(t, "R3")
  /\ UNCHANGED <<tableVars, hpList, hazard_pointers_, reclaim_map_, opn,
                 last, ghostVars, crash>>

\* old_head = head.load().
CtorLoadOldHead(t) ==
  /\ At(t, "R3")
  /\ SetLoc(t, [L(t) EXCEPT !.walk = hpList])
  /\ Goto(t, "R4")
  /\ UNCHANGED <<tableVars, regVars, reclaim_map_, opn, last, ghostVars, crash>>

\* new_head->next = old_head; head.compare_exchange_weak(old_head, new_head).
CtorPush(t) ==
  /\ At(t, "R4")
  /\ \E spurious \in SpuriousFailure :
       IF L(t).walk = hpList /\ ~spurious
       THEN /\ hpList' = <<L(t).new_head>> \o hpList
            /\ Acquire(t, L(t).new_head)
       ELSE /\ UNCHANGED <<hpList, hazard_pointers_>>
            /\ SetLoc(t, [L(t) EXCEPT !.walk = hpList])
            /\ Goto(t, "R4")
  /\ UNCHANGED <<tableVars, hpRec, hpSize, reclaim_map_, opn, last,
                 ghostVars, crash>>

(* ------------------------ Reclaimer::~Reclaimer ------------------------ *)
\* The thread function returns.  A thread that never called GetInstance has
\* no Reclaimer to destroy.
ThreadExit(t) ==
  /\ At(t, "idle")
  /\ Goto(t, IF Constructed(t) THEN "X0" ELSE "done")
  /\ UNCHANGED <<tableVars, regVars, reclaim_map_, loc, opn, last, ghostVars,
                 crash>>

\* 1. Hand over the hazard pointer: assert(ptr == nullptr); flag.clear().
DtorRelease(t) ==
  /\ At(t, "X0")
  /\ LET l == L(t)
         r == hazard_pointers_[t][l.slot + 1]
     IN IF hpRec[r].ptr # Null
        THEN crash' = "assert:~Reclaimer" /\ UNCHANGED <<hpRec, loc, pc>>
        ELSE /\ hpRec' = [hpRec EXCEPT ![r].flag = FALSE]
             /\ SetLoc(t, [l EXCEPT !.slot =
                    IF l.slot + 1 = kHarzardPointersPerThread THEN 0 ELSE l.slot + 1])
             /\ Goto(t, IF l.slot + 1 = kHarzardPointersPerThread THEN "X3" ELSE "X0")
             /\ UNCHANGED crash
  /\ UNCHANGED <<tableVars, hpList, hpSize, hazard_pointers_, reclaim_map_,
                 opn, last, ghostVars>>

\* 2. The drain loop: it = reclaim_map_.begin() (an unordered_map: any
\* element), then Hazard(it->first) starts with head.load(); the loop, and
\* with it the destructor, ends when the map is empty.
DtorNext(t) ==
  /\ At(t, "X3")
  /\ IF reclaim_map_[t] = {}
     THEN SetLoc(t, IdleLoc) /\ Goto(t, "done")
     ELSE /\ \E v \in reclaim_map_[t] :
               /\ L(t).victim \in {Null, v}
               /\ SetLoc(t, [L(t) EXCEPT !.victim = v, !.walk = hpList])
          /\ Goto(t, "X4")
  /\ UNCHANGED <<tableVars, regVars, reclaim_map_, opn, last, ghostVars, crash>>

\* Hazard(ptr): one p->ptr.load(); a match means yield and ask again.
DtorHazardRead(t) ==
  /\ At(t, "X4")
  /\ LET l == L(t)
     IN IF hpRec[Head(l.walk)].ptr = l.victim
        THEN SetLoc(t, [l EXCEPT !.walk = <<>>]) /\ Goto(t, "X3")
        ELSE /\ SetLoc(t, [l EXCEPT !.walk = Tail(l.walk)])
             /\ Goto(t, IF Len(l.walk) = 1 THEN "X5" ELSE "X4")
  /\ UNCHANGED <<tableVars, regVars, reclaim_map_, opn, last, ghostVars, crash>>

\* node->delete_func(node->ptr); it = reclaim_map_.erase(it).
DtorDelete(t) ==
  /\ At(t, "X5")
  /\ LET v == L(t).victim
     IN /\ freed' = freed \cup {v}
        /\ vfreed' = vfreed \cup ValuesOf({v})
        /\ reclaim_map_' = [reclaim_map_ EXCEPT ![t] = @ \ {v}]
        /\ SetLoc(t, [L(t) EXCEPT !.victim = Null])
  /\ Goto(t, "X3")
  /\ UNCHANGED <<nxt, val, bucket, power_of_2_, size_, regVars, opn, last,
                 ghostVars, crash>>

(* --------------------------- use after free ---------------------------- *)
\* The nodes the next step of thread t reads or writes through.
DerefNodes(t) ==
  LET l == L(t)
  IN CASE pc[t] = "S0" -> {l.shead}
       [] pc[t] \in {"S2", "S4", "I3", "BI", "D3"} -> {l.prev}
       [] pc[t] \in {"S3", "F1", "I1", "D1", "D2"} -> {l.cur}
       [] pc[t] = "S5" -> {l.prev, l.cur}
       [] pc[t] = "BF" -> {l.cur}
       [] OTHER -> {}

\* The value objects the next step of thread t reads.
DerefValues(t) == IF pc[t] = "F2" THEN {L(t).vp} ELSE {}

UseAfterFree(t) ==
  DerefNodes(t) \cap freed # {} \/ DerefValues(t) \cap vfreed # {}

\* Reading freed memory is undefined: the build of the address-sanitizer
\* makefile aborts there, the plain build reads what the memory still holds
\* (the step the thread takes anyway, freed nodes keeping their contents).
CrashOnUseAfterFree(t) ==
  /\ Running
  /\ UseAfterFree(t)
  /\ crash' = "use-after-free"
  /\ UNCHANGED <<tableVars, regVars, reclaim_map_, pc, loc, opn, last, ghostVars>>


(* -------------------------- reading the table -------------------------- *)
\* The nodes linked behind n, as Dump() walks them.
RECURSIVE Chain(_)
Chain(n) == IF n = Null THEN <<>> ELSE <<n>> \o Chain(nxt[n].ptr)

\* The whole list: every bucket's dummy is linked behind the dummy of bucket 0.
List == Chain(RootDummy)

\* The regular nodes in the list.
Regular == {n \in Range(List) : ~IsDummy(n)}

\* The regular nodes in the list that are not logically deleted.
Live == {n \in Range(List) : ~IsDummy(n) /\ ~nxt[n].mark}

\* The (key, value) pairs a Find on the quiescent table yields.
Entries == {<<KeyOf(n), ValueOf(val[n])>> : n \in Live}

\* size() and bucket_size().
size == size_
bucket_size == Pow2(power_of_2_)

(* ------------------------------- steps --------------------------------- *)
BucketStep(t) ==
  \/ GetBucketHeadByHash(t)
  \/ GetBucketHeadByIndex(t)
  \/ InitializeBucketParent(t)
  \/ InitializeBucketLoad(t)
  \/ InsertDummyNodeCas(t)
  \/ InitializeBucketAssert(t)
  \/ InitializeBucketStore(t)

SearchStep(t) ==
  \/ SearchStart(t)
  \/ SearchMarkCur(t)
  \/ SearchValidate(t)
  \/ SearchReadNext(t)
  \/ SearchCompare(t)
  \/ SearchSwapSave(t)
  \/ SearchSwapPrev(t)
  \/ SearchSwapCur(t)
  \/ SearchAdvance(t)
  \/ ClearHazard0(t)
  \/ ClearHazard1(t)

HelpStep(t) == SearchUnlink(t) \/ SearchRetire(t) \/ SearchSizeSub(t)

FindStep(t) == FindLoadValue(t) \/ FindCopyValue(t)

LinkStep(t) ==
  \/ InsertLink(t)
  \/ InsertDebugCheck(t)
  \/ InsertSizeAdd(t)
  \/ InsertLoadPower(t)
  \/ InsertGrow(t)

DeleteStep(t) ==
  \/ DeleteReadNext(t)
  \/ DeleteMark(t)
  \/ DeleteUnlink(t)
  \/ DeleteSizeSub(t)
  \/ DeleteRetire(t)

CtorStep(t) ==
  \/ CtorLoadHead(t)
  \/ CtorTestAndSet(t)
  \/ CtorAllocate(t)
  \/ CtorLoadOldHead(t)
  \/ CtorPush(t)

DtorStep(t) ==
  \/ ThreadExit(t)
  \/ DtorRelease(t)
  \/ DtorNext(t)
  \/ DtorHazardRead(t)
  \/ DtorDelete(t)

ScanStep(t) == ScanStart(t) \/ ScanRead(t) \/ ScanDelete(t)

(* ---------------------- one thread, call after call -------------------- *)
\* test.cc's main thread: Insert of a key the table does not hold.
SeqInsertNew ==
  \E k \in Keys, v \in Vals :
    /\ opn[1] < MaxSeqOps
    /\ known[k] = Absent
    /\ Call(1, InsertCall(k, v))

\* Insert of any key, held or not.
SeqInsert ==
  \E k \in Keys, v \in Vals : opn[1] < MaxSeqOps /\ Call(1, InsertCall(k, v))

SeqFind == \E k \in Keys : opn[1] < MaxSeqOps /\ Call(1, FindCall(k))

SeqDelete == \E k \in Keys : opn[1] < MaxSeqOps /\ Call(1, DeleteCall(k))

\* Inserts of distinct keys and Finds, no Delete.
NextRoundTrip ==
  \/ SeqInsertNew
  \/ SeqFind
  \/ BucketStep(1) \/ SearchStep(1) \/ FindStep(1) \/ LinkStep(1)

SpecRoundTrip == InitReady /\ [][NextRoundTrip]_vars

\* Inserts, of held keys too, and Finds.
NextReplace ==
  \/ SeqInsert
  \/ SeqFind
  \/ BucketStep(1) \/ SearchStep(1) \/ FindStep(1) \/ LinkStep(1)
  \/ InsertReplace(1)

SpecReplace == InitReady /\ [][NextReplace]_vars

\* Every call.
NextSeq ==
  \/ SeqInsert
  \/ SeqFind
  \/ SeqDelete
  \/ BucketStep(1) \/ SearchStep(1) \/ FindStep(1) \/ LinkStep(1)
  \/ InsertReplace(1) \/ DeleteStep(1)

SpecSeq == InitReady /\ [][NextSeq]_vars


(* --------------------------- the whole program ------------------------- *)
\* Any call on any key, by a thread that has calls left.
AnyCall(t) ==
  \E k \in Keys, v \in Vals :
    /\ opn[t] < MaxOps
    /\ \/ Call(t, InsertCall(k, v))
       \/ Call(t, DeleteCall(k))
       \/ Call(t, FindCall(k))

Next ==
  \E t \in Threads :
    \/ AnyCall(t)
    \/ BucketStep(t) \/ InitializeBucketAdopt(t) \/ SearchStep(t) \/ HelpStep(t)
    \/ FindStep(t) \/ LinkStep(t) \/ InsertReplace(t) \/ DeleteStep(t)
    \/ CtorStep(t) \/ ScanStep(t) \/ DtorStep(t)
    \/ CrashOnUseAfterFree(t)

Spec == Init /\ [][Next]_vars

(* ------------------------ sequential behaviour ------------------------- *)
\* The keys and entries the calls that returned so far leave in the table.
KnownKeys == {k \in AllKeys : Present(known[k])}
KnownEntries == {<<k, known[k].v>> : k \in KnownKeys}

\* C7: single-threaded, after Insert(k_i, v_i) of distinct keys and no Delete,
\* a Find(k_i) that returns has returned true and yielded v_i, for every
\* inserted key.
InsertFindRoundTrip ==
  (pc[1] = "idle" /\ last[1].op = "Find" /\ Present(known[last[1].key])) =>
    (last[1].ret /\ last[1].got = known[last[1].key].v)

\* Three distinct keys are in (the table has grown to 8 buckets on the way)
\* and the Find of one of them has returned true.
InsertFindRoundTripWitness ==
  /\ pc[1] = "idle"
  /\ last[1].op = "Find"
  /\ last[1].ret
  /\ Cardinality(KnownKeys) = 3
  /\ bucket_size = 8

\* C8: single-threaded, an Insert of a key the table holds changes neither
\* size() nor bucket_size() nor the regular nodes in the list at any of its
\* steps (it links no second node), and a Find that returns yields the value
\* of the last Insert of its key (last writer wins).
ReplaceKeepsSizeStep ==
  /\ (loc[1].op = "Insert" /\ Present(loc[1].exp)) =>
       (size' = size /\ bucket_size' = bucket_size /\ Regular' = Regular)
  /\ (loc[1].op = "Find" /\ pc'[1] = "idle" /\ Present(known[loc[1].key])) =>
       (last'[1].ret /\ last'[1].got = known[loc[1].key].v)

LastWriterWins == [][ReplaceKeepsSizeStep]_vars

\* A node holds the value object of a later Insert of its key, and the Find
\* of that key has returned the later value.
LastWriterWinsWitness ==
  /\ pc[1] = "idle"
  /\ last[1].op = "Find"
  /\ last[1].ret
  /\ \E n \in Live :
       /\ KeyOf(n) = last[1].key
       /\ val[n][3] > n[3]
       /\ last[1].got = ValueOf(val[n])
       /\ size = 1

\* C9 as stated: single-threaded, no step of a Delete of an absent key
\* changes size() or the list.
DeleteAbsentKeepsList ==
  [][(loc[1].op = "Delete" /\ ~Present(loc[1].exp)) =>
       (size' = size /\ List' = List)]_vars

\* C9, amended: single-threaded, between calls the table holds exactly the
\* entries the calls so far leave (a Delete that returned true removed its
\* key, one that returned false left the regular nodes as they were) and
\* size() counts them; Delete returns true exactly when the table held the
\* key, and Find returns true exactly for the keys held.
DeleteSemantics ==
  pc[1] = "idle" =>
    /\ Entries = KnownEntries
    /\ size = Cardinality(KnownKeys)
    /\ last[1].op = "Delete" => last[1].ret = Present(last[1].exp)
    /\ last[1].op = "Find" => last[1].ret = Present(known[last[1].key])

\* A Delete of a key that an earlier Delete removed has returned false, the
\* table still holding another key.
DeleteSemanticsWitness ==
  /\ pc[1] = "idle"
  /\ last[1].op = "Delete"
  /\ ~last[1].ret
  /\ nDeleted[last[1].key] = 1
  /\ size = 1


(* --------------------------- several threads --------------------------- *)
\* No call is in flight.
Quiescent == \A t \in Threads : loc[t].op = ""

\* Every thread has made its MaxOps calls and the last of them has returned
\* (the threads of test.cc have been joined).
Joined == \A t \in Threads : opn[t] >= MaxOps /\ loc[t].op = ""

\* A regular node of key k is logically deleted.
Marked(k) ==
  \E n \in DOMAIN nxt : ~IsDummy(n) /\ KeyOf(n) = k /\ nxt[n].mark

RECURSIVE Sum(_, _)
Sum(f, ks) ==
  IF ks = {} THEN 0
  ELSE LET k == CHOOSE x \in ks : TRUE IN f[k] + Sum(f, ks \ {k})

\* The main thread's Find after the join (thread 1 stands in for it).
JoinedFind ==
  \E k \in 0..(NThreads * MaxOps - 1) :
    /\ Joined
    /\ opn[1] < 2 * MaxOps
    /\ Call(1, FindCall(k))

\* test.cc: every thread inserts the keys 0..n-1 in order, Insert(j, j).
InsertSame(t) ==
  /\ opn[t] < MaxOps
  /\ Call(t, InsertCall(opn[t], opn[t]))

NextSame ==
  \/ \E t \in Threads :
       \/ InsertSame(t)
       \/ BucketStep(t) \/ InitializeBucketAdopt(t) \/ SearchStep(t)
       \/ LinkStep(t) \/ InsertReplace(t) \/ FindStep(t)
  \/ JoinedFind

SpecSame == InitReady /\ [][NextSame]_vars

\* Thread t inserts keys of its own: (t-1)*MaxOps .. t*MaxOps - 1.
DisjointKey(t, i) == (t - 1) * MaxOps + (i - 1)

InsertDisjoint(t) ==
  /\ opn[t] < MaxOps
  /\ Call(t, InsertCall(DisjointKey(t, opn[t] + 1), t))

NextDisjoint ==
  \/ \E t \in Threads :
       \/ InsertDisjoint(t)
       \/ BucketStep(t) \/ InitializeBucketAdopt(t) \/ SearchStep(t)
       \/ LinkStep(t) \/ FindStep(t)
  \/ JoinedFind

SpecDisjoint == InitReady /\ [][NextDisjoint]_vars

\* The keys of the concurrent workloads: they share the chain of bucket 0
\* until the table grows.
SharedKeys == {k \in Keys : k % 2 = 0}

\* Thread 1 fills the table before the threads start (the `start` flag of the
\* tests): the keys of SharedKeys in order, one Insert each.
SetupOps(t) == IF t = 1 THEN Cardinality(SharedKeys) ELSE 0

SetupInsert ==
  /\ opn[1] < SetupOps(1)
  /\ Call(1, InsertCall(2 * opn[1], 1))

SetupDone == opn[1] > SetupOps(1) \/ (opn[1] = SetupOps(1) /\ loc[1].op = "")

\* After the setup every thread calls Delete on the keys set up.
DeleteRace(t) ==
  \E k \in SharedKeys :
    /\ SetupDone
    /\ opn[t] < SetupOps(t) + MaxOps
    /\ Call(t, DeleteCall(k))

NextDelete ==
  \/ SetupInsert
  \/ \E t \in Threads :
       \/ DeleteRace(t)
       \/ BucketStep(t) \/ InitializeBucketAdopt(t) \/ SearchStep(t) \/ HelpStep(t)
       \/ LinkStep(t) \/ DeleteStep(t)

SpecDelete == InitReady /\ [][NextDelete]_vars


\* The benchmark's mixed workload on the table the setup filled: every thread
\* calls Insert, Delete and Find on the shared keys, thread 1 MaxOps times
\* and the others once less.
MixedOps(t) == IF t = 1 THEN MaxOps ELSE MaxOps - 1

MixedCall(t) ==
  \E k \in SharedKeys :
    /\ SetupDone
    /\ opn[t] < SetupOps(t) + MixedOps(t)
    /\ \/ Call(t, InsertCall(k, t))
       \/ Call(t, DeleteCall(k))
       \/ Call(t, FindCall(k))

NextMixed ==
  \/ SetupInsert
  \/ \E t \in Threads :
       \/ MixedCall(t)
       \/ BucketStep(t) \/ InitializeBucketAdopt(t) \/ SearchStep(t) \/ HelpStep(t)
       \/ FindStep(t) \/ LinkStep(t) \/ InsertReplace(t) \/ DeleteStep(t)

SpecMixed == InitReady /\ [][NextMixed]_vars

\* A writer and readers on a table that holds key 0: thread 1 calls Insert
\* and Delete, the other threads call Find.
FirstInsert == opn[1] = 0 /\ Call(1, InsertCall(0, 1))

FirstDone == opn[1] > 1 \/ (opn[1] = 1 /\ loc[1].op = "")

WriterCall ==
  \E k \in SharedKeys :
    /\ FirstDone
    /\ opn[1] < 1 + MaxOps
    /\ Call(1, InsertCall(k, opn[1] + 1)) \/ Call(1, DeleteCall(k))

ReaderCall(t) ==
  \E k \in SharedKeys :
    /\ FirstDone
    /\ t # 1
    /\ opn[t] < MaxOps
    /\ Call(t, FindCall(k))

NextReaders ==
  \/ FirstInsert
  \/ WriterCall
  \/ \E t \in Threads :
       \/ ReaderCall(t)
       \/ BucketStep(t) \/ InitializeBucketAdopt(t) \/ SearchStep(t) \/ HelpStep(t)
       \/ FindStep(t) \/ LinkStep(t) \/ InsertReplace(t) \/ DeleteStep(t)
       \/ CrashOnUseAfterFree(t)

SpecReaders == InitReady /\ [][NextReaders]_vars

\* The same with threads that may return from their thread function between
\* calls, which runs ~Reclaimer.
NextReclaim ==
  \/ FirstInsert
  \/ WriterCall
  \/ \E t \in Threads :
       \/ ReaderCall(t)
       \/ BucketStep(t) \/ InitializeBucketAdopt(t) \/ SearchStep(t) \/ HelpStep(t)
       \/ FindStep(t) \/ LinkStep(t) \/ InsertReplace(t) \/ DeleteStep(t)
       \/ DtorStep(t)
       \/ CrashOnUseAfterFree(t)

SpecReclaim == InitReady /\ [][NextReclaim]_vars


(* ------------------------ concurrent behaviour ------------------------- *)
\* C1: whenever a thread is about to read or write through a node pointer
\* (prev, cur, the head it searches from), the node is a dummy node or is
\* published in one of the thread's hazard slots, and no reclaimer has
\* deleted it.
HazardProtected ==
  Running =>
    \A t \in Threads : \A n \in DerefNodes(t) :
      /\ IsDummy(n) \/ n \in Published(t)
      /\ n \notin freed

\* C2: a Find(k) that returns while the calls before it determine k (the
\* last Insert(k, v) returned with no writer of k overlapping it, or k is
\* absent after a Delete(k) that returned true with no Insert(k) overlapping,
\* and no such call overlapped the Find) returns true with v, respectively
\* false, whatever the writer did to other keys meanwhile.
Linearizable ==
  \A t \in Threads :
    (pc[t] = "idle" /\ last[t].op = "Find" /\ last[t].exp # Unknown) =>
      IF Present(last[t].exp)
      THEN last[t].ret /\ last[t].got = last[t].exp.v
      ELSE ~last[t].ret

\* A Find of key 0 has returned the value inserted before it while the
\* writer, having linked another key, is about to double the bucket count.
LinearizableWitness ==
  /\ pc[2] = "idle"
  /\ last[2].op = "Find"
  /\ last[2].key = 0
  /\ last[2].ret
  /\ last[2].exp = Value(1)
  /\ pc[1] = "I8"
  /\ loc[1].key # 0

\* C3: when the threads have inserted their pairwise disjoint keys and have
\* been joined, size() is the number N of keys, each key is in the list once,
\* and a Find of any of them returns true with the value its thread inserted.
DisjointOwner(k) == k \div MaxOps + 1

DisjointConserved ==
  Joined =>
    /\ size = NThreads * MaxOps
    /\ Entries = {<<k, DisjointOwner(k)>> : k \in 0..(NThreads * MaxOps - 1)}
    /\ Cardinality(Live) = NThreads * MaxOps
    /\ (pc[1] = "idle" /\ last[1].op = "Find") =>
         (last[1].ret /\ last[1].got = DisjointOwner(last[1].key))

\* All threads are joined and the Find of a key another thread inserted has
\* returned.
DisjointConservedWitness ==
  /\ Joined
  /\ pc[1] = "idle"
  /\ last[1].op = "Find"
  /\ last[1].ret
  /\ DisjointOwner(last[1].key) = 2
  /\ size = NThreads * MaxOps

\* C4: when the threads insert the same keys 0..n-1, the list never holds two
\* regular nodes of one key, and after the join it holds one node per key,
\* size() is n and a Find(i) yields i.
SameKeysOnce ==
  /\ \A m, n \in Regular : KeyOf(m) = KeyOf(n) => m = n
  /\ nLinked <= MaxOps
  /\ Joined =>
       /\ size = MaxOps
       /\ Entries = {<<k, k>> : k \in 0..(MaxOps - 1)}
       /\ Cardinality(Live) = MaxOps
       /\ (pc[1] = "idle" /\ last[1].op = "Find" /\ last[1].key < MaxOps) =>
            (last[1].ret /\ last[1].got = last[1].key)

\* After the join a Find has returned, and a node holds the value object of
\* the other thread's Insert of its key: that Insert found the key linked.
SameKeysOnceWitness ==
  /\ Joined
  /\ pc[1] = "idle"
  /\ last[1].op = "Find"
  /\ last[1].ret
  /\ \E n \in Live : val[n][2] # n[2]

\* C5: when no call is in flight, size() is the number of keys in the list
\* (those a Find returns true for), no logically deleted node is left in the
\* list, and both equal the link CASes that succeeded minus the Deletes that
\* returned true.
MixedConserved ==
  Quiescent =>
    /\ size = Cardinality({KeyOf(n) : n \in Live})
    /\ size = nLinked - Sum(nDeleted, AllKeys)
    /\ \A n \in Range(List) : ~nxt[n].mark

\* A Delete has returned true whose node another thread's search unlinked
\* and retired, and no call is in flight.
MixedConservedWitness ==
  /\ Quiescent
  /\ nLinked > Cardinality(SharedKeys)
  /\ \E t, u \in Threads :
       /\ t # u
       /\ last[u].op = "Delete"
       /\ last[u].ret
       /\ \E n \in reclaim_map_[t] : KeyOf(n) = last[u].key

\* C6: of the Delete(k) calls the threads make on a key that is in the table
\* once, at most one returns true; one that returned false found the key
\* logically deleted by another; and once every call has returned, the call
\* that deleted the key has returned true.
DeleteOnce ==
  \A k \in SharedKeys :
    /\ nDeleted[k] <= 1
    /\ \A t \in Threads :
         (pc[t] = "idle" /\ last[t].op = "Delete" /\ last[t].key = k /\ ~last[t].ret)
           => Marked(k)
    /\ (Quiescent /\ Marked(k)) => nDeleted[k] = 1

\* Both threads have returned from Delete of the same key, thread 2 with true
\* and thread 1 with false, thread 1 having unlinked the node for thread 2.
DeleteOnceWitness ==
  /\ Quiescent
  /\ last[1].op = "Delete"
  /\ last[2].op = "Delete"
  /\ last[1].key = last[2].key
  /\ last[2].ret
  /\ ~last[1].ret
  /\ \E n \in reclaim_map_[1] : KeyOf(n) = last[1].key

\* C10: no Find reads through a value pointer whose object has been freed.
ValueNeverFreedInline ==
  Running => \A t \in Threads : DerefValues(t) \cap vfreed = {}

\* C11: when a reclaimer is about to invoke the deleter of a retired node (the
\* delete loop of ReclaimNoHazardPointer, the drain loop of ~Reclaimer), no
\* hazard record of any thread holds the node's address.
NoFreeWhileHazard ==
  \A t \in Threads :
    /\ pc[t] = "X5" =>
         \A r \in DOMAIN hpRec : hpRec[r].ptr # loc[t].victim
    /\ pc[t] = "N2" =>
         \A r \in DOMAIN hpRec : hpRec[r].ptr \notin (reclaim_map_[t] \ loc[t].snap)

(* --------------------------- filling the table -------------------------- *)
\* Inserts the single thread makes to fill the table, one more than there are
\* new keys so that one of them can replace.
MaxFill == 6

\* test.cc's main thread, line 19 on: Insert of the next new key or of a key
\* inserted before (the Insert test.cc has commented out is the sixth new key).
FillInsert ==
  \E k \in 0..nLinked :
    /\ opn[1] <= MaxFill
    /\ k < MaxFill
    /\ Call(1, InsertCall(k, opn[1] + 1))

NextFill ==
  \/ FillInsert
  \/ BucketStep(1) \/ SearchStep(1) \/ LinkStep(1) \/ InsertReplace(1)

SpecFill == InitReady /\ [][NextFill]_vars

\* C13: no Insert that has linked its node ends in the abort of
\* InsertRegularNode; every Insert returns normally.
InsertNeverAborts == crash # "assert:InsertRegularNode"

\* C15: single-threaded, between calls the bucket count is the one the growth
\* rule gives for the number of keys linked: 2 on the fresh table, doubled by
\* an Insert exactly when the new size exceeds half the bucket count, left
\* alone by an Insert that replaces; five new keys give 2, 4, 8, 8, 16.
RECURSIVE Grown(_)
Grown(n) ==
  IF n = 0 THEN 2
  ELSE IF 2 * n > Grown(n - 1) THEN 2 * Grown(n - 1) ELSE Grown(n - 1)

GrowthRule ==
  pc[1] = "idle" =>
    /\ size = nLinked
    /\ bucket_size = Grown(size)
    /\ size = 0 => bucket_size = 2
    /\ size \in 1..5 => bucket_size = <<2, 4, 8, 8, 16>>[size]

\* Five keys are in, one Insert among the calls replaced a value, and the
\* table has 16 buckets.
GrowthRuleWitness ==
  /\ pc[1] = "idle"
  /\ size = 5
  /\ opn[1] = 6
  /\ bucket_size = 16

\* C14: in every interleaving a step changes power_of_2_ only by adding one,
\* and only as the CAS that ends the Insert of a thread that had loaded the
\* current value: the bucket count never shrinks, every change doubles it, of
\* the threads that loaded the same value at most one succeeds, and an Insert
\* raises it at most once.
GrowthStep ==
  power_of_2_' # power_of_2_ =>
    /\ power_of_2_' = power_of_2_ + 1
    /\ bucket_size' = 2 * bucket_size
    /\ \E t \in Threads :
         pc[t] = "I8" /\ loc[t].power = power_of_2_ /\ pc'[t] = "idle"

BucketCountMonotone == [][GrowthStep]_vars

\* Two threads loaded the same power_of_2_; the CAS of one has succeeded and
\* the other is about to fail its own.
BucketCountMonotoneWitness ==
  \E t \in Threads :
    /\ pc[t] = "I8"
    /\ loc[t].power + 1 = power_of_2_
    /\ \E u \in Threads \ {t} : last[u].op = "Insert" /\ pc[u] = "idle"

\* C16: whenever no call is in flight, bucket_size() >= 2 * size().
LoadFactorRespected == Quiescent => bucket_size >= 2 * size

\* C17: single-threaded, an Insert that returns reports true exactly when
\* the key was absent (it linked a new node) and false exactly when it
\* replaced the value of the node the key had.
InsertReports ==
  (pc[1] = "idle" /\ last[1].op = "Insert") =>
    (last[1].ret = ~Present(last[1].exp))

\* C18: single-threaded, no step of a Find changes the key-to-value mapping,
\* size() or bucket_size(), whether or not the key is present and whether or
\* not the Find has to initialise the key's bucket.
FindFrameStep ==
  loc[1].op = "Find" =>
    (Entries' = Entries /\ size' = size /\ bucket_size' = bucket_size)

FindHasNoEffect == [][FindFrameStep]_vars

\* A Find of an absent key has returned false after it initialised the key's
\* bucket, the table holding another key.
FindHasNoEffectWitness ==
  /\ pc[1] = "idle"
  /\ last[1].op = "Find"
  /\ ~last[1].ret
  /\ size = 1
  /\ \E b \in 1..MaxBucket : bucket[b] = DummyNode(1, opn[1], b)

\* C19: in every reachable state the nodes linked behind the dummy of bucket 0
\* (logically deleted ones included) are strictly ascending in
\* (reverse_hash, key): each node is Less than the node linked behind it.
ListSorted ==
  LET l == List
  IN \A i \in 1..(Len(l) - 1) : Less(l[i], l[i + 1])

\* The list holds the dummies of two buckets, a regular node and a
\* logically deleted node that is still linked.
ListSortedWitness ==
  /\ Cardinality({n \in Range(List) : IsDummy(n)}) >= 2
  /\ \E n \in Regular : nxt[n].mark
  /\ Live # {}

\* C20: in every reachable state the list holds at most one dummy node per
\* bucket index; a bucket slot that is set holds the one dummy of its index,
\* and so does every thread that InitializeBucket or GetBucketHeadByHash
\* returned a head to.
DummiesOf(b) == {n \in Range(List) : IsDummy(n) /\ HashOf(n) = b}

OneDummyPerBucket ==
  /\ \A b \in 0..MaxBucket :
       /\ Cardinality(DummiesOf(b)) <= 1
       /\ bucket[b] # Null => DummiesOf(b) = {bucket[b]}
  /\ \A t \in Threads :
       loc[t].head # Null => DummiesOf(HashOf(loc[t].head)) = {loc[t].head}

\* Two threads initialised one bucket at once: a thread goes on with the
\* dummy the other linked, which the other has not yet stored in the bucket.
OneDummyPerBucketWitness ==
  \E t \in Threads :
    /\ loc[t].head # Null
    /\ loc[t].head[2] # t
    /\ bucket[HashOf(loc[t].head)] = Null

(* ------------------------------ progress ------------------------------- *)
\* Any step of thread t inside a public call.
ThreadStep(t) ==
  \/ BucketStep(t) \/ InitializeBucketAdopt(t) \/ SearchStep(t) \/ HelpStep(t)
  \/ FindStep(t) \/ LinkStep(t) \/ InsertReplace(t) \/ DeleteStep(t)

\* A compare_exchange_weak of thread t that succeeds.
WeakCasSucceeds(t) ==
  \/ InsertLink(t) /\ nxt' # nxt
  \/ InsertDummyNodeCas(t) /\ nxt' # nxt
  \/ DeleteMark(t) /\ nxt' # nxt

\* The scheduler runs every thread that can take a step, and a
\* compare_exchange_weak whose expected value is there again and again does
\* not fail spuriously for ever.
Fairness ==
  \A t \in Threads : WF_vars(ThreadStep(t)) /\ SF_vars(WeakCasSucceeds(t))

\* A short mixed workload: once thread 1 has inserted key 0, every thread
\* makes MaxOps - 1 calls of Insert, Delete or Find on any key.
LiveCall(t) ==
  \E k \in Keys :
    /\ FirstDone
    /\ opn[t] < (IF t = 1 THEN 1 ELSE 0) + (MaxOps - 1)
    /\ \/ Call(t, InsertCall(k, t))
       \/ Call(t, DeleteCall(k))
       \/ Call(t, FindCall(k))

NextLive ==
  \/ FirstInsert
  \/ \E t \in Threads : LiveCall(t) \/ ThreadStep(t)

\* The workload under a fair scheduler.
SpecLive == InitReady /\ [][NextLive]_vars /\ Fairness

MaxPower == 4
HashScale == 4097
\* Nodes constructed at once.
MaxNodes == 3

Buckets == 0..(Pow2(MaxPower) - 1)
Hashes == Buckets \cup {h * HashScale : h \in Buckets}

\* new RegularNode(key, value, hash_func_): Node(hash_func(key), false), which
\* fixes reverse_hash = RegularKey(hash).
NewRegularNode ==
  \E key \in Hashes :
    /\ Cardinality(DOMAIN nxt) <= MaxNodes
    /\ RegularNode(1, 0, key) \notin DOMAIN nxt
    /\ nxt' = nxt @@ (RegularNode(1, 0, key) :> NoPtr)
    /\ val' = val @@ (RegularNode(1, 0, key) :> ValueObj(1, 0, 1))
    /\ UNCHANGED <<freed, vfreed, bucket, power_of_2_, size_, regVars,
                   reclaim_map_, pc, loc, opn, last, ghostVars, crash>>

\* new DummyNode(bucket_index): Node(bucket_index, true), which fixes
\* reverse_hash = DummyKey(bucket_index).
NewDummyNode ==
  \E b \in Buckets \ {0} :
    /\ Cardinality(DOMAIN nxt) <= MaxNodes
    /\ DummyNode(1, 0, b) \notin DOMAIN nxt
    /\ nxt' = nxt @@ (DummyNode(1, 0, b) :> NoPtr)
    /\ UNCHANGED <<val, freed, vfreed, bucket, power_of_2_, size_, regVars,
                   reclaim_map_, pc, loc, opn, last, ghostVars, crash>>

NextKeys == NewRegularNode \/ NewDummyNode

SpecKeys == InitReady /\ [][NextKeys]_vars

\* reverse_hash & 0x1.
LowBit(w) == w[8] % 2

\* C24: for all nodes constructed, at every bucket count 2^k (k >= 1): the
\* dummy of bucket hash mod 2^k sorts strictly before the regular node of
\* that hash, which sorts strictly before every dummy of a bucket below 2^k
\* that sorts behind its own; a dummy's reverse_hash has low bit 0 and a
\* regular node's has low bit 1, and the assertion of Less holds.
SortKeyOrder ==
  LET nodes == DOMAIN nxt
      dummies == {n \in nodes : IsDummy(n)}
      regulars == {n \in nodes : ~IsDummy(n)}
  IN /\ \A r \in regulars, d \in dummies, k \in 1..MaxPower :
          HashOf(d) = HashOf(r) % Pow2(k) =>
            /\ WordLess(reverse_hash(d), reverse_hash(r))
            /\ Less(d, r)
            /\ \A e \in dummies :
                 (HashOf(e) < Pow2(k) /\ WordLess(reverse_hash(d), reverse_hash(e)))
                   => (WordLess(reverse_hash(r), reverse_hash(e)) /\ Less(r, e))
     /\ \A n \in nodes : LowBit(reverse_hash(n)) = (IF IsDummy(n) THEN 0 ELSE 1)
     /\ \A m, n \in nodes : ~LessAssertFails(m, n)

\* A regular node whose hash has bits in its second byte, the dummy of its
\* bucket at bucket count 2 and the dummy of the other bucket.
SortKeyOrderWitness ==
  \E r, d, e \in DOMAIN nxt :
    /\ ~IsDummy(r) /\ IsDummy(d) /\ IsDummy(e)
    /\ HashOf(r) >= Pow2(MaxPower)
    /\ HashOf(d) = HashOf(r) % 2
    /\ HashOf(e) < 2
    /\ WordLess(reverse_hash(d), reverse_hash(e))

(* -------------------------- bucket initialisation ----------------------- *)
\* The head an InitializeBucket of thread t returns in the step at hand: to
\* GetBucketHeadByHash (the call's head) or to the InitializeBucket that
\* recursed into it (its parent_head).
ReturnedHead(t) ==
  IF Len(loc[t].stack) = 1 THEN loc'[t].head
  ELSE loc'[t].stack[Len(loc'[t].stack)].parent_head

\* C21: when threads run InitializeBucket(b) at once, neither assertion of
\* InitializeBucket fails; an InitializeBucket that returns returns the one
\* dummy of hash b in the list; the thread whose InsertDummyNode linked it
\* stores it into a bucket slot that is still null; a thread whose
\* InsertDummyNode failed has deleted its own dummy and returns the other's.
InitializeBucketStep ==
  /\ crash' # "assert:InitializeBucket"
  /\ \A t \in Threads :
       (pc[t] \in {"B1", "B3", "BF"} /\ Len(loc'[t].stack) < Len(loc[t].stack)) =>
         LET b == Top(loc[t]).b
             own == Top(loc[t]).new_head
             h == ReturnedHead(t)
         IN /\ IsDummy(h) /\ HashOf(h) = b
            /\ {n \in Range(List') : IsDummy(n) /\ HashOf(n) = b} = {h}
            /\ pc[t] = "B3" => (h = own /\ bucket[b] = Null /\ bucket'[b] = h)
            /\ pc[t] = "BF" => (h # own /\ own \notin DOMAIN nxt' /\ bucket'[b] \in {Null, h})

InitializeBucketOnce == [][InitializeBucketStep]_vars

\* Two threads initialised one bucket at once: the one whose InsertDummyNode
\* failed goes on with the dummy of the other, which has stored it in the
\* bucket slot and goes on with it too.
InitializeBucketOnceWitness ==
  \E t, u \in Threads :
    /\ t # u
    /\ loc[t].after = "BF"
    /\ loc[t].head # Null
    /\ loc[t].head[2] = u
    /\ loc[u].head = loc[t].head
    /\ bucket[HashOf(loc[t].head)] = loc[t].head

\* C22: a bucket slot that is set is never written again, and a slot that is
\* set holds a dummy node of the slot's index that is linked in the list
\* behind the dummy of bucket 0 (the dummy is linked before it is stored).
BucketSlotStep ==
  \A b \in 0..MaxBucket :
    /\ bucket[b] # Null => bucket'[b] = bucket[b]
    /\ bucket'[b] # Null =>
         /\ IsDummy(bucket'[b])
         /\ HashOf(bucket'[b]) = b
         /\ bucket'[b] \in Range(List')

Initialised(b) == DummiesOf(b) # {} \/ bucket[b] # Null

\* C23 as stated: for every bucket b # 0 whose dummy is linked or whose slot
\* is set, the parent's dummy is linked and the parent's slot is set.
ParentInitialisedFirst ==
  \A b \in 1..MaxBucket :
    Initialised(b) =>
      (DummiesOf(GetBucketParent(b)) # {} /\ bucket[GetBucketParent(b)] # Null)

\* C23, amended: for every bucket b # 0 whose dummy is linked or whose slot is
\* set, the parent's dummy is linked in the list, and the parent's slot is set
\* or the thread that linked the parent's dummy has yet to store it.
ParentLinkedFirst ==
  \A b \in 1..MaxBucket :
    Initialised(b) =>
      LET p == GetBucketParent(b)
      IN /\ DummiesOf(p) # {}
         /\ \/ bucket[p] # Null
            \/ \E t \in Threads :
                 /\ Len(loc[t].stack) > 0
                 /\ pc[t] \in {"H0", "H1", "B2", "B3"}
                 /\ Top(loc[t]).new_head \in DummiesOf(p)

\* Bucket 3 is initialised, slot and all, by a thread that adopted the dummy
\* of bucket 1, while the thread that linked that dummy has yet to store it.
ParentLinkedFirstWitness ==
  /\ bucket[3] # Null
  /\ bucket[3] \in Range(List)
  /\ bucket[1] = Null
  /\ DummiesOf(1) # {}

(* ------------------------------- growth -------------------------------- *)
\* The dummy a lookup of bucket b searches from: the bucket's own when it is
\* linked, else (InitializeBucket links it by a search from there) that of the
\* nearest bucket up the parents that is.
RECURSIVE HeadOf(_)
HeadOf(b) ==
  IF b = 0 THEN RootDummy
  ELSE IF DummiesOf(b) # {} THEN CHOOSE d \in DummiesOf(b) : TRUE
  ELSE HeadOf(GetBucketParent(b))

\* Every regular node in the list lies behind the dummy that a lookup of its
\* hash starts from, at the current bucket count and at every earlier one, and
\* every node between the two is Less than it: a search from there reaches it.
KeysStayReachable ==
  LET l == List
  IN \A i \in 1..Len(l) :
       ~IsDummy(l[i]) =>
         \A k \in 1..power_of_2_ :
           \E j \in 1..(i - 1) :
             /\ l[j] = HeadOf(HashOf(l[i]) % Pow2(k))
             /\ \A m \in (j + 1)..(i - 1) : Less(l[m], l[i])

\* The step that raises power_of_2_ writes no node, no next-pointer, no value
\* and no bucket slot.
GrowthKeepsNodesStep ==
  power_of_2_' # power_of_2_ =>
    (nxt' = nxt /\ val' = val /\ bucket' = bucket /\ List' = List)

\* A Find of a key that the calls before it left in the table, no writer of
\* that key overlapping it, has returned true.
PresentKeysFound ==
  \A t \in Threads :
    (pc[t] = "idle" /\ last[t].op = "Find" /\ Present(last[t].exp)) => last[t].ret

\* C25: growing the bucket count moves no data: the CAS on power_of_2_
\* changes no node and no next-pointer, every key in the list stays reachable
\* from the dummy of bucket hash mod the bucket count (the new one and the old
\* ones that calls in flight computed with), linked or yet to be linked by the
\* lookup itself, and a Find of a present key returns true.
GrowthMovesNoData ==
  /\ [][GrowthKeepsNodesStep]_vars
  /\ [](KeysStayReachable /\ PresentKeysFound)

\* After the growth to 4 buckets a Find of key 2 has initialised bucket 2
\* itself and has returned true, the key's node having been linked when the
\* table had 2 buckets.
GrowthMovesNoDataWitness ==
  \E t \in Threads :
    /\ pc[t] = "idle"
    /\ last[t].op = "Find"
    /\ last[t].key = 2
    /\ last[t].ret
    /\ power_of_2_ = 2
    /\ bucket[2] # Null
    /\ bucket[2][2] = t

(* ------------------------------ SearchNode ----------------------------- *)
\* What holds of thread t's prev and cur at the instant its SearchNode reads
\* prev->next at line 503 and finds cur there: prev is in the list, not
\* logically deleted, and neither it nor any node before it reaches the
\* search node; cur is null or the node linked behind prev.
AtValidation(t) ==
  LET l == loc[t]
      ls == List
  IN /\ nxt[l.prev] = Ref(l.cur)
     /\ \E i \in 1..Len(ls) :
          /\ ls[i] = l.prev
          /\ \A j \in 1..i : Less(ls[j], l.snode)
          /\ IF l.cur = Null THEN i = Len(ls) ELSE (i < Len(ls) /\ ls[i + 1] = l.cur)

\* SearchNode of thread t returns in the step at hand, from line 508 or 529.
SearchReturns(t) ==
  \/ pc[t] = "S2" /\ pc'[t] \notin {"S2", "S0", "S3"}
  \/ pc[t] = "S5" /\ pc'[t] \notin {"S5", "S0", "S6"}

\* C26, step by step: (1) the validation of line 503 passes only at an
\* instant as AtValidation describes; (2) a next-pointer that is marked stays
\* as it is, so the cur that line 511 reads unmarked was unmarked at that
\* instant; (3) a cur read marked is unlinked by the CAS of line 513 or the
\* search restarts; (4) SearchNode returns only a cur that is null or not
\* Less than the search node and was read unmarked, with prev and cur those
\* of the validation, found being true exactly when cur Equals the search node.
SearchNodeStep ==
  \A t \in Threads :
    /\ (pc[t] = "S2" /\ pc'[t] \notin {"S2", "S0"}) => AtValidation(t)
    /\ \A n \in DOMAIN nxt :
         (nxt[n].mark /\ n \in DOMAIN nxt') => nxt'[n] = nxt[n]
    /\ (pc[t] = "S3" /\ pc'[t] # "S3") =>
         /\ loc'[t].next = nxt[loc[t].cur]
         /\ pc'[t] = (IF nxt[loc[t].cur].mark THEN "S4" ELSE "S5")
    /\ (pc[t] = "S4" /\ pc'[t] # "S4") =>
         \/ pc'[t] = "S0"
         \/ /\ pc'[t] = "S4a"
            /\ loc[t].cur \notin Range(List')
    /\ (pc[t] \in {"S3", "S5"} /\ pc'[t] \notin {"S0", "S1"}) =>
         (loc'[t].prev = loc[t].prev /\ loc'[t].cur = loc[t].cur)
    /\ SearchReturns(t) =>
         /\ nxt[loc[t].prev] = Ref(loc[t].cur)
         /\ Less(loc[t].prev, loc[t].snode)
         /\ loc[t].cur # Null =>
              (~Less(loc[t].cur, loc[t].snode) /\ ~loc[t].next.mark)
         /\ loc'[t].found =
              (loc[t].cur # Null /\ Equals(loc[t].cur, loc[t].snode))

SearchNodePostcondition == [][SearchNodeStep]_vars

\* A search returns a node that another thread marked after the search read
\* its next-pointer unmarked: cur is logically deleted by the time of the
\* return, though it was not at the validation.
SearchNodePostconditionWitness ==
  \E t \in Threads :
    /\ pc[t] \in {"D1", "F1", "I1"}
    /\ loc[t].found
    /\ ~loc[t].next.mark
    /\ nxt[loc[t].cur].mark

(* ---------------------------- hazard slots ----------------------------- *)
\* Thread t is inside the swap of the hazard slots (lines 535-538), between
\* the first and the last of its four MarkHazard calls.
InRotation(t) == pc[t] \in {"S7", "S8", "S9"}

\* Thread t is between the return of its last SearchNode and the
\* ClearHazardPointer of the caller (about to clear slot 0 at the latest).
AfterSearch(t) ==
  \/ pc[t] \in {"F1", "F2", "I1", "I3", "BI", "D1", "D2", "D3", "D4", "D5"}
  \/ pc[t] \in {"N0", "N1", "N2"} /\ loc[t].rafter = "H0"
  \/ pc[t] = "H0" /\ loc[t].cur # Null

\* prev and cur of thread t are published: cur unless null, prev unless it
\* is a dummy node.
BothPublished(t) ==
  /\ loc[t].cur # Null => loc[t].cur \in Published(t)
  /\ IsDummy(loc[t].prev) \/ loc[t].prev \in Published(t)

HelperDelete(t) ==
  \E k \in SharedKeys :
    /\ FirstDone
    /\ t # 1
    /\ opn[t] < MaxOps - 1
    /\ Call(t, DeleteCall(k))

NextHelp ==
  \/ FirstInsert
  \/ WriterCall
  \/ \E t \in Threads :
       \/ HelperDelete(t)
       \/ BucketStep(t) \/ InitializeBucketAdopt(t) \/ SearchStep(t) \/ HelpStep(t)
       \/ LinkStep(t) \/ InsertReplace(t) \/ DeleteStep(t)

SpecHelp == InitReady /\ [][NextHelp]_vars

\* C28: a Delete returns true only when the node it marked is out of the
\* list; and a node leaves the list only by the unlink CAS of a Delete or of
\* a SearchNode whose cur it is.
DeleteReturnStep ==
  /\ \A t \in Threads :
       (loc[t].op = "Delete" /\ pc[t] # "idle" /\ pc'[t] = "idle" /\ last'[t].ret) =>
         /\ loc[t].marked # Null
         /\ nxt'[loc[t].marked].mark
         /\ loc[t].marked \notin Range(List')
  /\ \A n \in Range(List) \ Range(List') :
       \E u \in Threads :
         /\ pc[u] \in {"D3", "S4"}
         /\ pc'[u] \in {"D4", "S4a"}
         /\ loc[u].cur = n

DeleteReturnsUnlinked == [][DeleteReturnStep]_vars

\* The unlink CAS of a Delete failed because the node before its victim was
\* deleted meanwhile; its second search has unlinked and retired the victim,
\* and the Delete is about to return true.
DeleteReturnsUnlinkedWitness ==
  \E t \in Threads :
    /\ pc[t] = "H0"
    /\ loc[t].op = "Delete"
    /\ loc[t].caller = "del2"
    /\ loc[t].marked \in reclaim_map_[t]

\* C29: a node leaves the list only when it is a regular node whose
\* next-pointer is marked; a next-pointer that is marked is never written
\* again (dummy nodes are never marked); and a CAS on prev->next (the link of
\* InsertRegularNode, of InsertDummyNode, the unlink of SearchNode and of
\* DeleteNode) succeeds only while prev's next-pointer is unmarked, so that
\* no pointer to another node is ever stored in a logically deleted node.
MarkThenUnlinkStep ==
  /\ \A n \in Range(List) \ Range(List') : ~IsDummy(n) /\ nxt[n].mark
  /\ \A n \in DOMAIN nxt :
       /\ (nxt[n].mark /\ n \in DOMAIN nxt') => nxt'[n] = nxt[n]
       /\ IsDummy(n) => ~nxt[n].mark
  /\ \A t \in Threads :
       (/\ pc[t] \in {"I3", "BI", "S4", "D3"}
        /\ pc'[t] \in {"H0", "S4a", "D4"}) =>
         /\ ~nxt[loc[t].prev].mark
         /\ nxt[loc[t].prev] = Ref(loc[t].cur)
         /\ ~nxt'[loc[t].prev].mark
         /\ loc[t].prev \in Range(List)

MarkThenUnlink == [][MarkThenUnlinkStep]_vars

\* A thread is about to CAS the next-pointer of a prev that another thread
\* has marked since the search returned it.
MarkThenUnlinkWitness ==
  \E t \in Threads :
    /\ pc[t] \in {"I3", "D3"}
    /\ nxt[loc[t].prev].mark
    /\ nxt[loc[t].prev].ptr = loc[t].cur


(* ----------------------------- address reuse --------------------------- *)
\* operator new may hand out the address of a node that was deleted: every
\* copy of the old pointer (in a thread's locals, a hazard record, the next
\* field of another node) then is a pointer to the new node.
Reissue(f, n, x) == IF x = f THEN n ELSE x

\* The locals of thread u after the address f was handed out again as n.
\* reissued names the locals whose address was handed out again after the
\* thread read it: next, and cur once SearchNode has validated it.
ReissueLoc(f, n, u) ==
  LET l == loc[u]
      old == {x \in {"next"} : l.next.ptr = f}
               \cup {x \in {"cur"} : l.cur = f /\ pc[u] \notin {"S0", "S1", "S2"}}
  IN [l EXCEPT !.prev = Reissue(f, n, @), !.cur = Reissue(f, n, @),
               !.next = [@ EXCEPT !.ptr = Reissue(f, n, @)],
               !.hp0 = Reissue(f, n, @), !.hp1 = Reissue(f, n, @),
               !.victim = Reissue(f, n, @), !.marked = Reissue(f, n, @),
               !.snap = {Reissue(f, n, x) : x \in @},
               !.reissued = @ \cup old]

\* Insert up to the call of GetBucketHeadByHash, its new RegularNode placed
\* at the address of the deleted node f.
CallReissued(t, c, f) ==
  /\ At(t, "idle")
  /\ c.op = "Insert"
  /\ f \in freed
  /\ ~IsDummy(f)
  /\ LET i == opn[t] + 1
         n == RegularNode(t, i, c.key)
         mine == [IdleLoc EXCEPT !.op = c.op, !.key = c.key, !.val = c.val,
                    !.exp = known[c.key], !.new_node = n,
                    !.clean = Writers(t, c.key, {"Insert", "Delete"}) = {}]
     IN /\ opn' = [opn EXCEPT ![t] = i]
        /\ last' = [last EXCEPT ![t] = NoCall]
        /\ nxt' = [m \in (DOMAIN nxt \ {f}) \cup {n} |->
                     IF m = n THEN NoPtr
                     ELSE [nxt[m] EXCEPT !.ptr = Reissue(f, n, @)]]
        /\ val' = [m \in (DOMAIN val \ {f}) \cup {n} |->
                     IF m = n THEN ValueObj(t, i, c.val) ELSE val[m]]
        /\ freed' = freed \ {f}
        /\ hpRec' = [r \in DOMAIN hpRec |->
                       [hpRec[r] EXCEPT !.ptr = Reissue(f, n, @)]]
        /\ loc' = [u \in Threads |->
                     IF u = t THEN mine ELSE Overlap(ReissueLoc(f, n, u), c)]
        /\ known' = [known EXCEPT ![c.key] = Unknown]
  /\ Goto(t, "G0")
  /\ UNCHANGED <<vfreed, bucket, power_of_2_, size_, hpList, hpSize,
                 hazard_pointers_, reclaim_map_, nLinked, nDeleted, crash>>

\* The thread function of thread t has returned and the program starts a
\* thread again (test.cc starts threads in a loop): its thread_local
\* Reclaimer is constructed at the first GetInstance.
Respawn(t) ==
  /\ At(t, "done")
  /\ hazard_pointers_' = [hazard_pointers_ EXCEPT ![t] = <<>>]
  /\ Goto(t, "idle")
  /\ UNCHANGED <<tableVars, hpList, hpRec, hpSize, reclaim_map_, loc, opn,
                 last, ghostVars, crash>>

\* Thread 1 inserts keys 0 and 4 (one chain, whatever the bucket count),
\* deletes key 4 and inserts it again; it may return from its thread function
\* and be started again between two calls.
ChurnOps == <<InsertCall(0, 1), InsertCall(4, 1), DeleteCall(4), InsertCall(4, 2)>>

ChurnCall ==
  /\ opn[1] < Len(ChurnOps)
  /\ \/ Call(1, ChurnOps[opn[1] + 1])
     \/ \E f \in freed : CallReissued(1, ChurnOps[opn[1] + 1], f)

\* The other threads delete the same keys meanwhile.
VictimCall(t) ==
  \E k \in {0, 4} :
    /\ t # 1
    /\ FirstDone
    /\ opn[t] < MaxOps - 1
    /\ Call(t, DeleteCall(k))

ChurnExit == opn[1] < Len(ChurnOps) /\ ThreadExit(1)

NextReissue ==
  \/ ChurnCall
  \/ ChurnExit
  \/ \E t \in Threads :
       \/ VictimCall(t)
       \/ Respawn(t)
       \/ CtorLoadHead(t) \/ CtorTestAndSet(t)
       \/ DtorRelease(t) \/ DtorNext(t) \/ DtorHazardRead(t) \/ DtorDelete(t)
       \/ GetBucketHeadByHash(t) \/ GetBucketHeadByIndex(t)
       \/ SearchStep(t) \/ HelpStep(t) \/ LinkStep(t) \/ DeleteStep(t)

SpecReissue == InitReady /\ [][NextReissue]_vars

\* A CAS on prev->next (link, dummy link, unlink) of thread t succeeds.
LinkCasSucceeds(t) ==
  pc[t] \in {"I3", "BI", "S4", "D3"} /\ pc'[t] \notin {pc[t], "S0"}

\* The CAS of DeleteNode on cur->next of thread t succeeds.
MarkCasSucceeds(t) == pc[t] = "D2" /\ pc'[t] = "D3"

\* C30: when deleted addresses are handed out again, no CAS on prev->next
\* succeeds on an expected cur whose address was handed out again after
\* SearchNode validated it (cur is in hazard slot 0 from the validation to
\* the CAS); the CAS of DeleteNode on cur->next can succeed on a next whose
\* address was handed out again, next being in no hazard slot, and then it
\* finds cur->next unmarked with that address and sets nothing but its mark
\* bit.
ReissuedOnlyNextStep ==
  \A t \in Threads :
    /\ LinkCasSucceeds(t) => "cur" \notin loc[t].reissued
    /\ MarkCasSucceeds(t) =>
         /\ nxt[loc[t].cur] = [ptr |-> loc[t].next.ptr, mark |-> FALSE]
         /\ nxt' = [nxt EXCEPT ![loc[t].cur].mark = TRUE]
         /\ loc[t].cur \notin freed

ReissuedOnlyNext == [][ReissuedOnlyNextStep]_vars

\* The CAS of DeleteNode has succeeded on a next whose node was deleted and
\* whose address holds the node of a later Insert.
ReissuedOnlyNextWitness ==
  \E t \in Threads :
    /\ pc[t] = "D3"
    /\ "next" \in loc[t].reissued
    /\ loc[t].next.ptr # Null
    /\ nxt[loc[t].cur] = [ptr |-> loc[t].next.ptr, mark |-> TRUE]

\* C30 as stated: no CAS on a next-pointer succeeds on an expected pointer
\* whose node was deleted and whose address was handed out again after the
\* thread read it: neither the CAS of DeleteNode on cur->next, which expects
\* next, nor a CAS on prev->next, which expects cur.
NoReissuedExpected ==
  [][\A t \in Threads :
       /\ MarkCasSucceeds(t) => "next" \notin loc[t].reissued
       /\ LinkCasSucceeds(t) => "cur" \notin loc[t].reissued]_vars


(* --------------------------- slots on return --------------------------- *)
\* C31: between two public calls, and when the thread function returns, all
\* three hazard slots of the thread hold null (slots 0 and 1 by
\* ClearHazardPointer, slot 2 by the end of every rotation in SearchNode), so
\* the assert of ~Reclaimer on its slots never fails.
SlotsClearOnReturn ==
  /\ crash # "assert:~Reclaimer"
  /\ \A t \in Threads :
       pc[t] \in {"idle", "X0"} => Published(t) \subseteq {Null}

\* A thread whose last call walked past a node (the rotation used all three
\* slots) on a table with the bucket of key 2 initialised has returned from
\* its thread function, and ~Reclaimer has passed the assert on its slots.
SlotsClearOnReturnWitness ==
  \E t \in Threads :
    /\ pc[t] = "X3"
    /\ last[t].op # ""
    /\ last[t].key = 2
    /\ bucket[2] # Null
    /\ crash = ""


(* ----------------------------- thread exit ----------------------------- *)
\* C32: the busy flag of a record of thread t is cleared only when every node
\* thread t retired has been deleted (its retire list is empty).
DrainBeforeRelease ==
  [][\A t \in Threads : \A i \in DOMAIN hazard_pointers_[t] :
       (/\ hpRec[hazard_pointers_[t][i]].flag
        /\ ~hpRec'[hazard_pointers_[t][i]].flag) => reclaim_map_[t] = {}]_vars


\* C33: ~Reclaimer deletes a node of its retire list once (the node was not
\* deleted before and leaves the list with the delete), at a moment when no
\* hazard record holds the node's address, and the destructor ends with the
\* retire list empty.
TeardownFreesUnpublished ==
  [][\A t \in Threads :
       /\ (pc[t] = "X5" /\ pc'[t] = "X3") =>
            /\ loc[t].victim \notin freed
            /\ loc[t].victim \notin reclaim_map_'[t]
            /\ \A r \in DOMAIN hpRec : hpRec[r].ptr # loc[t].victim
       /\ (pc[t] = "X3" /\ pc'[t] = "done") => reclaim_map_[t] = {}]_vars


(* ------------------------- the record registry ------------------------- *)
\* Threads that start with no Reclaimer: thread 1 inserts key 0 and then, as
\* the other threads, calls Find of key 0; the first SearchNode of a thread
\* constructs its Reclaimer; between two calls a thread may return from its
\* thread function and be started again.
RegistryOps(t) == IF t = 1 THEN MaxOps ELSE MaxOps - 1

RegistryCall(t) ==
  /\ opn[t] < RegistryOps(t)
  /\ Call(t, IF t = 1 /\ opn[t] = 0 THEN InsertCall(0, 1) ELSE FindCall(0))

RegistryRespawn(t) == opn[t] < RegistryOps(t) /\ Respawn(t)

NextRegistry ==
  \E t \in Threads :
    \/ RegistryCall(t)
    \/ GetBucketHeadByHash(t) \/ GetBucketHeadByIndex(t)
    \/ CtorStep(t)
    \/ SearchStart(t) \/ SearchMarkCur(t) \/ SearchValidate(t)
    \/ SearchReadNext(t) \/ SearchCompare(t)
    \/ ClearHazard0(t) \/ ClearHazard1(t)
    \/ FindStep(t)
    \/ InsertLink(t) \/ InsertDebugCheck(t) \/ InsertSizeAdd(t) \/ InsertLoadPower(t)
    \/ ThreadExit(t) \/ DtorRelease(t) \/ DtorNext(t)
    \/ RegistryRespawn(t)

SpecRegistry == Init /\ [][NextRegistry]_vars

\* The records thread t owns: those its constructor has acquired, the one it
\* has allocated and not pushed yet, less those its destructor has handed over.
Owned(t) ==
  CASE pc[t] \in {"X3", "X4", "X5", "done"} -> {}
    [] pc[t] = "X0" ->
         {hazard_pointers_[t][i] : i \in (loc[t].slot + 1)..Len(hazard_pointers_[t])}
    [] OTHER -> Range(hazard_pointers_[t]) \cup ({loc[t].new_head} \ {Null})

RecordsOwned ==
  /\ \A r \in DOMAIN hpRec :
       /\ hpRec[r].flag <=> (\E t \in Threads : r \in Owned(t))
       /\ Cardinality({t \in Threads : r \in Owned(t)}) <= 1
       /\ r \in Range(hpList) \/ \E t \in Threads : r = loc[t].new_head
  /\ \A t \in Threads :
       /\ Cardinality(Range(hazard_pointers_[t])) = Len(hazard_pointers_[t])
       /\ pc[t] \notin {"idle", "G0", "G1", "R0", "R1", "R2", "R3", "R4", "done"} =>
            Constructed(t)
  /\ Cardinality(Range(hpList)) = Len(hpList)
  /\ Range(hpList) \subseteq DOMAIN hpRec

RegistryStep ==
  /\ hpList' = hpList \/ (hpList' # <<>> /\ Tail(hpList') = hpList)
  /\ DOMAIN hpRec \subseteq DOMAIN hpRec'
  /\ \A r \in DOMAIN hpRec :
       hpRec'[r].ptr # hpRec[r].ptr =>
         \E t \in Threads : r \in Owned(t) /\ pc'[t] # pc[t]

\* C34: a record's busy flag is set exactly while one live thread owns it; a
\* constructed Reclaimer owns three distinct records; the pointer of a record
\* is written only by a step of its owner; and the registry only grows at its
\* head, every record pushed staying in it, whatever constructors run
\* concurrently.
RecordsExclusive == []RecordsOwned /\ [][RegistryStep]_vars

\* A thread publishes a node in a record that another thread allocated and
\* handed over at its exit, while the registry holds more than the three
\* records one thread needs.
RecordsExclusiveWitness ==
  \E t, u \in Threads :
    /\ t # u
    /\ Constructed(u)
    /\ hazard_pointers_[u][1][1] = t
    /\ hpRec[hazard_pointers_[u][1]].ptr # Null
    /\ Len(hpList) > kHarzardPointersPerThread


(* --------------------------- the retire list --------------------------- *)
\* Deletes thread 1 makes in the run that fills its retire list.
MaxRetire == 9

\* Thread 1, which starts with no Reclaimer, inserts and deletes key 0 in
\* turn; the other threads arrive when its retire list is about to reach the
\* threshold and call Find of key 0, which constructs their Reclaimers and
\* so raises the registry size while thread 1 retires and scans.
RetireCall ==
  /\ opn[1] < 2 * MaxRetire
  /\ Call(1, IF opn[1] % 2 = 0 THEN InsertCall(0, 1) ELSE DeleteCall(0))

RetireFind(t) ==
  /\ t # 1
  /\ opn[t] < MaxOps - 1
  /\ opn[1] >= 2 * (MaxRetire - 2)
  /\ Call(t, FindCall(0))

NextRetire ==
  \/ RetireCall
  \/ \E t \in Threads :
       \/ RetireFind(t)
       \/ GetBucketHeadByHash(t) \/ GetBucketHeadByIndex(t)
       \/ CtorStep(t)
       \/ SearchStart(t) \/ SearchMarkCur(t) \/ SearchValidate(t)
       \/ SearchReadNext(t) \/ SearchCompare(t)
       \/ HelpStep(t)
       \/ ClearHazard0(t) \/ ClearHazard1(t)
       \/ FindStep(t)
       \/ InsertLink(t) \/ InsertDebugCheck(t) \/ InsertSizeAdd(t) \/ InsertLoadPower(t)
       \/ DeleteStep(t)
       \/ ScanStep(t)

SpecRetire == Init /\ [][NextRetire]_vars

Retired == UNION {reclaim_map_[t] : t \in Threads}

\* The nodes some next-pointer or bucket slot refers to.
Referenced ==
  {nxt[m].ptr : m \in DOMAIN nxt} \cup {bucket[b] : b \in DOMAIN bucket}

RetireOnceStep ==
  /\ \A t \in Threads :
       \A n \in reclaim_map_'[t] \ reclaim_map_[t] :
         /\ pc[t] \in {"S4a", "D5"}
         /\ n = loc[t].cur
         /\ ~IsDummy(n)
         /\ n \notin Retired
         /\ n \notin freed
         /\ n \notin Range(List)
  /\ \A t \in Threads :
       \A n \in Range(List) \ Range(List') :
         pc[t] # pc'[t] =>
           /\ pc[t] \in {"S4", "D3"}
           /\ pc'[t] \in {"S4a", "D4"}
           /\ n = loc[t].cur
           /\ nxt[loc[t].prev] = Ref(n)
  /\ \A t \in Threads :
       (pc'[t] \in {"S4a", "D4"} /\ pc[t] \in {"S4", "D3"}) =>
         /\ loc[t].cur \in Range(List) \ Range(List')
         /\ loc[t].cur \notin Retired \cup freed
  /\ \A n \in freed' \ freed :
       /\ n \in Retired
       /\ n \notin UNION {reclaim_map_'[t] : t \in Threads}
       /\ n \in DOMAIN nxt'
  /\ freed \subseteq freed'
  /\ \A n \in DOMAIN nxt \ DOMAIN nxt' :
       /\ n \notin Referenced
       /\ n \notin Retired \cup freed
       /\ \E t \in Threads :
            \/ pc[t] = "I1" /\ n = loc[t].new_node
            \/ pc[t] = "BF" /\ n = Top(loc[t]).new_head

\* C36: a node is retired only by the thread whose unlink CAS (of
\* SearchNode or of DeleteNode) took it out of the list, in the step that
\* follows, and only when it is a regular node that was neither retired nor
\* freed before; a node is freed only out of a retire list, which it leaves
\* in the same step, so that no node is retired twice, in two lists, or
\* freed twice; and a node deleted directly (the new node of a replacing
\* Insert, the dummy node of a lost InitializeBucket) is referred to by no
\* next-pointer and no bucket slot and was never retired.
RetireOnce ==
  /\ [](/\ \A t, u \in Threads :
             t # u => reclaim_map_[t] \cap reclaim_map_[u] = {}
        /\ Retired \cap freed = {}
        /\ Retired \cap Range(List) = {})
  /\ [][RetireOnceStep]_vars

\* A reader has retired the node a Delete of another thread marked, and the
\* Delete, which lost the unlink CAS to it, searches again.
RetireOnceWitness ==
  \E t, u \in Threads :
    /\ t # u
    /\ loc[t].marked # Null
    /\ loc[t].marked \in reclaim_map_[u]
    /\ loc[t].caller = "del2"


(* --------------------------- the size counter -------------------------- *)
\* C37: size_ never wraps below zero, and size() is never greater than the
\* number of regular nodes ever linked.
SizeNeverWraps ==
  /\ ~SizeWrapped(size_)
  /\ size_ <= nLinked


(* ----------------------------- dummy nodes ----------------------------- *)
DummiesStayStep ==
  /\ \A n \in Range(List) :
       IsDummy(n) => n \in Range(List') /\ n \in DOMAIN nxt'
  /\ \A n \in DOMAIN nxt \cap DOMAIN nxt' :
       (nxt'[n].mark /\ ~nxt[n].mark) => ~IsDummy(n)

\* C38: no dummy node's next-pointer is marked, no dummy node is in a retire
\* list or freed, the node a Delete has found and goes on to mark, unlink
\* and retire is a regular node, and a dummy node that is in the list stays
\* in the list in every step.
DummiesPermanent ==
  /\ [](/\ \A n \in DOMAIN nxt : IsDummy(n) => ~nxt[n].mark
        /\ \A n \in Retired \cup freed : ~IsDummy(n)
        /\ \A t \in Threads :
             pc[t] \in {"D1", "D2", "D3", "D4", "D5"} => ~IsDummy(loc[t].cur))
  /\ [][DummiesStayStep]_vars

\* A Delete has marked the node that follows the dummy node of a bucket
\* other than bucket 0 and is about to unlink it from that dummy node.
DummiesPermanentWitness ==
  \E t \in Threads :
    /\ pc[t] = "D3"
    /\ IsDummy(loc[t].prev)
    /\ loc[t].prev # RootDummy
    /\ nxt[loc[t].cur].mark


(* --------------------------- the segment tree -------------------------- *)
kMaxLevel == 4
kSegmentSize == 64

\* The bucket indexes walked: the multiples d * kSegmentSize^e of the powers
\* of the segment size and their predecessors, below kSegmentSize^kMaxLevel.
MaxDigit == 2

BucketIndexes ==
  {b \in {d * kSegmentSize ^ e - r : d \in 1..MaxDigit, e \in 0..kMaxLevel, r \in 0..1} :
     b < kSegmentSize ^ kMaxLevel}

\* The locals of a walk down the tree: int level = 1; SegmentIndex
\* segment_index = bucket_index.  `path` lists the index used at each array
\* so far, `found` the path of the InitializeBucket that ran before.
WalkLoc(b, found) ==
  [bucket_index |-> b, level |-> 1, segment_index |-> b, path |-> <<>>,
   found |-> found]

\* Every thread calls InitializeBucket and then GetBucketHeadByIndex on a
\* bucket index of its own; nothing but the walk of the tree is followed.
InitSegments ==
  /\ TableInit
  /\ hpList = <<Rec0>>
  /\ hpRec = (Rec0 :> FreeRec)
  /\ hpSize = 0
  /\ hazard_pointers_ = [t \in Threads |-> <<>>]
  /\ reclaim_map_ = [t \in Threads |-> {}]
  /\ pc = [t \in Threads |-> "T0"]
  /\ loc \in [Threads -> {WalkLoc(b, <<>>) : b \in BucketIndexes}]
  /\ opn = [t \in Threads |-> 0]
  /\ last = [t \in Threads |-> NoCall]
  /\ nLinked = 0
  /\ nDeleted = [k \in AllKeys |-> 0]
  /\ known = [k \in AllKeys |-> Absent]
  /\ crash = ""

\* segments[i] and buckets[i] are arrays of kSegmentSize elements.
InArray(i) == i >= 0 /\ i < kSegmentSize

\* The walk goes on through element i (an element outside the array is
\* whatever the memory behind it holds).
WalkOn(t, l, p) ==
  /\ SetLoc(t, l)
  /\ Goto(t, p)
  /\ UNCHANGED crash

\* An index outside the array is undefined: the build of the address
\* sanitizer aborts there, the plain build goes on.
WalkIndex(t, i, l, p) ==
  \/ WalkOn(t, l, p)
  \/ /\ ~InArray(i)
     /\ crash' = "out-of-bounds"
     /\ UNCHANGED <<pc, loc>>

\* One round of `while (level++ <= kMaxLevel - 2)`: segment_index /=
\* kSegmentSize; segments = segments[segment_index] (its sub-segments).
Descend(t, here) ==
  /\ L(t).level <= kMaxLevel - 2
  /\ LET i == L(t).segment_index \div kSegmentSize
     IN WalkIndex(t, i, [L(t) EXCEPT !.level = @ + 1, !.segment_index = i,
                                     !.path = Append(@, i)], here)

\* After the loop: segment_index /= kSegmentSize; buckets =
\* segments[segment_index] (its buckets).
LastSegment(t, then) ==
  /\ L(t).level > kMaxLevel - 2
  /\ LET i == L(t).segment_index \div kSegmentSize
     IN WalkIndex(t, i, [L(t) EXCEPT !.level = @ + 1, !.segment_index = i,
                                     !.path = Append(@, i)], then)

\* InitializeBucket, lines 354-372.
InitializeBucketDescend(t) ==
  /\ At(t, "T0")
  /\ Descend(t, "T0")
  /\ UNCHANGED <<tableVars, regVars, reclaim_map_, opn, last, ghostVars>>

\* InitializeBucket, lines 374-386.
InitializeBucketLast(t) ==
  /\ At(t, "T0")
  /\ LastSegment(t, "T1")
  /\ UNCHANGED <<tableVars, regVars, reclaim_map_, opn, last, ghostVars>>

\* InitializeBucket, line 388: buckets[bucket_index % kSegmentSize]; the
\* call of GetBucketHeadByIndex with the same bucket index follows.
InitializeBucketSlot(t) ==
  /\ At(t, "T1")
  /\ LET l == L(t)
         i == l.bucket_index % kSegmentSize
     IN WalkIndex(t, i, WalkLoc(l.bucket_index, Append(l.path, i)), "T2")
  /\ UNCHANGED <<tableVars, regVars, reclaim_map_, opn, last, ghostVars>>

\* GetBucketHeadByIndex, lines 415-419.
GetBucketHeadDescend(t) ==
  /\ At(t, "T2")
  /\ Descend(t, "T2")
  /\ UNCHANGED <<tableVars, regVars, reclaim_map_, opn, last, ghostVars>>

\* GetBucketHeadByIndex, lines 421-423.
GetBucketHeadLast(t) ==
  /\ At(t, "T2")
  /\ LastSegment(t, "T3")
  /\ UNCHANGED <<tableVars, regVars, reclaim_map_, opn, last, ghostVars>>

\* GetBucketHeadByIndex, line 425: buckets[bucket_index % kSegmentSize].
GetBucketHeadSlot(t) ==
  /\ At(t, "T3")
  /\ LET l == L(t)
         i == l.bucket_index % kSegmentSize
     IN WalkIndex(t, i, [l EXCEPT !.path = Append(@, i)], "T4")
  /\ UNCHANGED <<tableVars, regVars, reclaim_map_, opn, last, ghostVars>>

NextSegments ==
  \E t \in Threads :
    \/ InitializeBucketDescend(t) \/ InitializeBucketLast(t)
    \/ InitializeBucketSlot(t)
    \/ GetBucketHeadDescend(t) \/ GetBucketHeadLast(t)
    \/ GetBucketHeadSlot(t)

SpecSegments == InitSegments /\ [][NextSegments]_vars

\* Both functions resolve a bucket index to the same slot, and two bucket
\* indexes to two slots.
SlotsDistinct ==
  \A t \in Threads :
    pc[t] = "T4" =>
      /\ loc[t].path = loc[t].found
      /\ \A u \in Threads :
           (pc[u] = "T4" /\ loc[u].bucket_index # loc[t].bucket_index) =>
             loc[u].path # loc[t].path

\* C39: for every bucket index below kSegmentSize^kMaxLevel the index used
\* at each of the four levels is within its array of kSegmentSize elements,
\* InitializeBucket and GetBucketHeadByIndex resolve the bucket index to the
\* same slot, and distinct bucket indexes resolve to distinct slots.
SegmentAddressing ==
  /\ crash = ""
  /\ \A t \in Threads :
       \A j \in DOMAIN loc[t].path : InArray(loc[t].path[j])
  /\ SlotsDistinct

====
